---- MODULE Spec2Model ----
(***************************************************************************)
(* Model of the aiviz dashboard: the family of data-shape validators and   *)
(* the page scripts that load JSON, validate it and chart it.              *)
(*                                                                         *)
(* JSON values are tagged records; Python's operations on them (in,        *)
(* iteration, isinstance, str) are modelled with the exceptions they       *)
(* raise.  A message is the sequence of its words.                         *)
(***************************************************************************)
EXTENDS Integers, Sequences, FiniteSets, TLC

VARIABLES
    data,       \* the value handed to the validator (as it is after the call)
    orig,       \* the same value as it was parsed, before any call
    call,       \* the validator called last ("none": not yet called)
    result,     \* the outcome of that call
    ui,         \* what that call itself wrote to the page (st.error)
    page,       \* the page script a session is on
    session,    \* st.session_state
    widget,     \* the widget values the user has set
    shown       \* what the last render of the page put on screen

vvars == <<data, orig, call, result, ui>>
rvars == <<page, session, widget, shown>>
vars == <<data, orig, call, result, ui, page, session, widget, shown>>

(***************************************************************************)
(* Bounds of the model.                                                    *)
(***************************************************************************)
MaxNodes == 2        \* elements of a nodes array
MaxLinks == 1        \* elements of a links array
MaxTreeSize == 3     \* nodes of a tree, the root included
MaxLayers == 3       \* layers of a network
MaxClasses == 2      \* classes of a confusion matrix

(***************************************************************************)
(* JSON-decoded values.                                                    *)
(***************************************************************************)
JNull == [t |-> "null"]
JInt(n) == [t |-> "int", v |-> n]
JFloat(n, h) == [t |-> "float", v |-> n, half |-> h]
JStr(s) == [t |-> "str", v |-> s]
JList(s) == [t |-> "list", v |-> s]
JDict(f) == [t |-> "dict", v |-> f]
EmptyDict == JDict([k \in {} |-> JNull])

IsDict(x) == x.t = "dict"
IsList(x) == x.t = "list"
IsStr(x) == x.t = "str"
IsInt(x) == x.t = "int"
IsNumber(x) == x.t \in {"int", "float"}
Keys(d) == DOMAIN d.v
Get(d, k) == d.v[k]

\* Sequences over S of length at most n.
SeqUpTo(S, n) == UNION {[1..m -> S] : m \in 0..n}

\* f with key k set to x (a dict literal built field by field).
With(f, k, x) == [j \in (DOMAIN f) \cup {k} |-> IF j = k THEN x ELSE f[j]]

(***************************************************************************)
(* Python operations.                                                      *)
(***************************************************************************)
\* str(n) of an integer.
Digit == <<"0", "1", "2", "3", "4", "5", "6", "7", "8", "9">>
RECURSIVE NatStr(_)
NatStr(n) == IF n < 10 THEN Digit[n + 1] ELSE NatStr(n \div 10) \o Digit[(n % 10) + 1]
IntStr(n) == IF n < 0 THEN "-" \o NatStr(0 - n) ELSE NatStr(n)

\* A number as twice its value: a float of the model is n or n + 0.5, n >= 0.
Twice(x) == IF x.t = "float" /\ x.half THEN 2 * x.v + 1 ELSE 2 * x.v
\* str() of the number whose double is tw, printed as a float or as an int.
NumStr(tw, isfloat) ==
    IF isfloat THEN IntStr(tw \div 2) \o (IF tw % 2 = 1 THEN ".5" ELSE ".0")
    ELSE IntStr(tw \div 2)

\* str(x) of a scalar, as an f-string formats it.
PyStr(x) ==
    CASE x.t = "null" -> "None"
      [] x.t = "str" -> x.v
      [] x.t = "int" -> IntStr(x.v)
      [] x.t = "float" -> NumStr(Twice(x), TRUE)
      [] OTHER -> "<object>"

\* int(x): the integer, or the exception raised.  int() of a float truncates;
\* int() of a str parses a decimal numeral (one digit in the model).
PyInt(x) ==
    CASE x.t = "int" -> [exc |-> "none", v |-> x.v]
      [] x.t = "float" -> [exc |-> "none", v |-> x.v]
      [] x.t = "str" ->
            IF \E i \in 1..10 : Digit[i] = x.v
            THEN [exc |-> "none", v |-> (CHOOSE i \in 1..10 : Digit[i] = x.v) - 1]
            ELSE [exc |-> "ValueError", v |-> 0]
      [] OTHER -> [exc |-> "TypeError", v |-> 0]

\* s.strip() is empty.
Blank(s) == s \in {"", " "}

\* `k in x` for a string k: "T", "F", or the exception raised.  On a str it is a
\* substring test; no string of the model properly contains a key.
PyIn(k, x) ==
    CASE x.t = "dict" -> IF k \in Keys(x) THEN "T" ELSE "F"
      [] x.t = "list" -> IF \E i \in 1..Len(x.v) : x.v[i] = JStr(k) THEN "T" ELSE "F"
      [] x.t = "str" -> IF x.v = k THEN "T" ELSE "F"
      [] OTHER -> "TypeError"

\* `for e in x` can run: a list of the model (None and numbers are not iterable).
Iterable(x) == x.t = "list"

\* x < 0 for a number.
Negative(x) == x.v < 0

\* "'" + s + "'", a value quoted inside a message.
Quoted(s) == "'" \o s \o "'"
\* "(" + s + ")".
Paren(s) == "(" \o s \o ")"

(***************************************************************************)
(* Outcomes of a call, and messages.                                       *)
(***************************************************************************)
\* A (bool, str) return, a bare bool return (no message), a list-of-errors return,
\* or an exception leaving the function.
Pair(ok, m) == [kind |-> "return", conv |-> "pair", ok |-> ok, msgs |-> <<m>>, exc |-> "none"]
Bare(ok) == [kind |-> "return", conv |-> "bool", ok |-> ok, msgs |-> <<>>, exc |-> "none"]
Errors(es) == [kind |-> "return", conv |-> "list", ok |-> es = <<>>, msgs |-> es, exc |-> "none"]
Raise(e, m) == [kind |-> "raise", conv |-> "raise", ok |-> FALSE, msgs |-> <<m>>, exc |-> e]
NoResult == [kind |-> "none", conv |-> "none", ok |-> FALSE, msgs |-> <<>>, exc |-> "none"]

\* Inside a validator: a check failed with message m (raise ValueError(m) or
\* return False, m), an exception e of another type was raised, or all passed.
Fail(m) == [st |-> "fail", msg |-> m, exc |-> "none"]
Throw(e) == [st |-> "throw", msg |-> <<>>, exc |-> e]
Pass == [st |-> "pass", msg |-> <<>>, exc |-> "none"]

\* The word w occurs in message m.
HasWord(m, w) == \E i \in 1..Len(m) : m[i] = w
\* The words p occur in m, in a row.
HasPhrase(m, p) ==
    \E i \in 0..(Len(m) - Len(p)) : \A j \in 1..Len(p) : m[i + j] = p[j]

(***************************************************************************)
(* Pipeline flow: validate_pipeline_data, in its three copies.             *)
(***************************************************************************)
\* The node loop from position i on, node_ids being the ids seen so far:
\* the failure it ends with, or the ids of all nodes.
RECURSIVE PipelineNodes(_, _, _)
PipelineNodes(nodes, i, node_ids) ==
    IF i > Len(nodes) THEN [st |-> "pass", ids |-> node_ids]
    ELSE LET node == nodes[i] IN
        IF PyIn("id", node) = "TypeError" THEN Throw("TypeError")
        ELSE IF PyIn("id", node) = "F" \/ PyIn("name", node) = "F"
        THEN Fail(<<"Each", "node", "must", "have", "'id'", "and", "'name'", "fields">>)
        ELSE IF ~IsDict(node) THEN Throw("TypeError")
        ELSE IF ~IsInt(Get(node, "id"))
        THEN Fail(<<"Node", "'id'", "must", "be", "an", "integer">>)
        ELSE IF Get(node, "id") \in node_ids
        THEN Fail(<<"Node", "IDs", "must", "be", "unique">>)
        ELSE PipelineNodes(nodes, i + 1, node_ids \cup {Get(node, "id")})

\* The body of the link loop, with the checks of a link in another order: the
\* value before the endpoints.
PipelineLinkValueFirst(link, node_ids) ==
    IF PyIn("source", link) = "TypeError" THEN Throw("TypeError")
    ELSE IF PyIn("source", link) = "F" \/ PyIn("target", link) = "F"
            \/ PyIn("value", link) = "F"
    THEN Fail(<<"Each", "link", "must", "have", "'source',", "'target',", "and",
                "'value'", "fields">>)
    ELSE IF ~IsDict(link) THEN Throw("TypeError")
    ELSE IF ~IsNumber(Get(link, "value")) \/ Negative(Get(link, "value"))
    THEN Fail(<<"Link", "value", "must", "be", "a", "non-negative", "number">>)
    ELSE IF Get(link, "source") \notin node_ids \/ Get(link, "target") \notin node_ids
    THEN Fail(<<"Link", "source", "and", "target", "must", "reference", "valid",
                "node", "IDs">>)
    ELSE Pass
\* The body of the link loop: the checks of one link.
PipelineLink(link, node_ids) ==
    IF PyIn("source", link) = "TypeError" THEN Throw("TypeError")
    ELSE IF PyIn("source", link) = "F" \/ PyIn("target", link) = "F"
            \/ PyIn("value", link) = "F"
    THEN Fail(<<"Each", "link", "must", "have", "'source',", "'target',", "and",
                "'value'", "fields">>)
    ELSE IF ~IsDict(link) THEN Throw("TypeError")
    ELSE IF Get(link, "source") \notin node_ids \/ Get(link, "target") \notin node_ids
    THEN Fail(<<"Link", "source", "and", "target", "must", "reference", "valid",
                "node", "IDs">>)
    ELSE IF ~IsNumber(Get(link, "value")) \/ Negative(Get(link, "value"))
    THEN Fail(<<"Link", "value", "must", "be", "a", "non-negative", "number">>)
    ELSE Pass

\* The link loop from position i on.
RECURSIVE PipelineLinks(_, _, _)
PipelineLinks(links, i, node_ids) ==
    IF i > Len(links) THEN Pass
    ELSE LET c == PipelineLink(links[i], node_ids) IN
        IF c.st # "pass" THEN c ELSE PipelineLinks(links, i + 1, node_ids)

\* The checks the three copies share, in the order of the code.
PipelineChecks(d) ==
    IF ~IsDict(d) THEN Fail(<<"Data", "must", "be", "a", "dictionary">>)
    ELSE IF PyIn("nodes", d) = "F" \/ PyIn("links", d) = "F"
    THEN Fail(<<"Data", "must", "contain", "'nodes'", "and", "'links'", "keys">>)
    ELSE IF ~Iterable(Get(d, "nodes")) THEN Throw("TypeError")
    ELSE LET ns == PipelineNodes(Get(d, "nodes").v, 1, {}) IN
        IF ns.st # "pass" THEN ns
        ELSE IF ~Iterable(Get(d, "links")) THEN Throw("TypeError")
        ELSE LET ls == PipelineLinks(Get(d, "links").v, 1, ns.ids) IN
            IF ls.st # "pass" THEN ls
            ELSE IF Len(Get(d, "nodes").v) < 2
            THEN Fail(<<"Pipeline", "must", "have", "at", "least", "2", "nodes">>)
            ELSE Pass

\* pages/page13_Data_Pipeline_Flow.py: ValueError is caught and returned.
validate_pipeline_data_page13(d) ==
    LET c == PipelineChecks(d) IN
    CASE c.st = "pass" -> Pair(TRUE, <<>>)
      [] c.st = "fail" -> Pair(FALSE, c.msg)
      [] OTHER -> Raise(c.exc, <<>>)

\* pages/13_Data_Pipeline_Flow.py: ValueError is caught and raised again.
validate_pipeline_data_13(d) ==
    LET c == PipelineChecks(d) IN
    CASE c.st = "pass" -> Bare(TRUE)
      [] c.st = "fail" -> Raise("ValueError", c.msg)
      [] OTHER -> Raise(c.exc, <<>>)

\* A copy that would catch every exception and return it as the reason.
validate_pipeline_data_catching(d) ==
    LET c == PipelineChecks(d) IN
    CASE c.st = "pass" -> Pair(TRUE, <<>>)
      [] c.st = "fail" -> Pair(FALSE, c.msg)
      [] OTHER -> Pair(FALSE, <<c.exc>>)

\* pages/thirteen_Data_Pipeline_Flow.py: no try; each check returns (False, msg).
validate_pipeline_data_thirteen(d) ==
    LET c == PipelineChecks(d) IN
    CASE c.st = "pass" -> Pair(TRUE, <<>>)
      [] c.st = "fail" -> Pair(FALSE, c.msg)
      [] OTHER -> Raise(c.exc, <<>>)

(***************************************************************************)
(* Error/dropout tracking: validate_data, in its two copies.               *)
(***************************************************************************)
\* all(key in e for key in keys) over the elements from position i on:
\* "T", "F", or the exception the first offending element raises.
RECURSIVE AllHaveKeys(_, _, _)
AllHaveKeys(elems, i, keys) ==
    IF i > Len(elems) THEN "T"
    ELSE IF \E k \in keys : PyIn(k, elems[i]) = "TypeError" THEN "TypeError"
    ELSE IF \E k \in keys : PyIn(k, elems[i]) = "F" THEN "F"
    ELSE IF ~IsDict(elems[i]) THEN "TypeError"
    ELSE AllHaveKeys(elems, i + 1, keys)

\* What str(e) gives for an exception that is not raised by the validator itself.
ExceptionText == "<exception text>"

\* pages/17_Error_Dropout_Tracking.py, the body of the try block.
DropoutChecks17(d) ==
    IF PyIn("nodes", d) = "TypeError" THEN Throw("TypeError")
    ELSE IF PyIn("nodes", d) = "F" \/ PyIn("links", d) = "F"
    THEN Fail(<<"Missing", "required", "fields:", "nodes", "and", "links">>)
    ELSE IF ~IsDict(d) \/ ~Iterable(Get(d, "nodes")) THEN Throw("TypeError")
    ELSE LET nodes == Get(d, "nodes").v
             nk == AllHaveKeys(nodes, 1, {"id", "name"})
         IN
        IF nk = "TypeError" THEN Throw("TypeError")
        ELSE IF nk = "F"
        THEN Fail(<<"Invalid", "node", "format:", "each", "node", "must", "have", "id",
                    "and", "name">>)
        ELSE IF ~\E i \in 1..Len(nodes) : Get(nodes[i], "name") = JStr("Discarded")
        THEN Fail(<<"Missing", "Discarded", "node">>)
        ELSE IF ~Iterable(Get(d, "links")) THEN Throw("TypeError")
        ELSE LET links == Get(d, "links").v
                 lk == AllHaveKeys(links, 1, {"source", "target", "value"})
                 node_ids == {Get(nodes[i], "id") : i \in 1..Len(nodes)}
             IN
            IF lk = "TypeError" THEN Throw("TypeError")
            ELSE IF lk = "F"
            THEN Fail(<<"Invalid", "link", "format:", "each", "link", "must", "have",
                        "source,", "target,", "and", "value">>)
            ELSE IF \E i \in 1..Len(links) :
                       Get(links[i], "source") \notin node_ids
                           \/ Get(links[i], "target") \notin node_ids
            THEN Fail(<<"Invalid", "node", "reference", "in", "links">>)
            ELSE Pass

\* pages/17_Error_Dropout_Tracking.py: every failure is written with st.error and
\* False returned; any exception is caught, written and False returned.
validate_data_17(d) ==
    LET c == DropoutChecks17(d) IN
    CASE c.st = "pass" -> [out |-> Bare(TRUE), ui |-> <<>>]
      [] c.st = "fail" -> [out |-> Bare(FALSE), ui |-> <<c.msg>>]
      [] OTHER -> [out |-> Bare(FALSE),
                   ui |-> <<<<"Error", "validating", "data:", ExceptionText>>>>]

\* The node loop of pages/seventeen_Error_Dropout_Tracking.py from position i on.
RECURSIVE Dropout17Nodes(_, _, _)
Dropout17Nodes(nodes, i, node_ids) ==
    IF i > Len(nodes) THEN [st |-> "pass", ids |-> node_ids]
    ELSE LET node == nodes[i] IN
        IF ~IsDict(node) THEN Fail(<<>>)
        ELSE IF PyIn("id", node) = "F" \/ PyIn("name", node) = "F" THEN Fail(<<>>)
        ELSE IF ~IsInt(Get(node, "id")) THEN Fail(<<>>)
        ELSE IF Get(node, "id") \in node_ids THEN Fail(<<>>)
        ELSE Dropout17Nodes(nodes, i + 1, node_ids \cup {Get(node, "id")})

\* Its link loop from position i on: has_dropout_path at the end, or the failure.
RECURSIVE Dropout17Links(_, _, _, _, _)
Dropout17Links(links, i, nodes, node_ids, has_dropout_path) ==
    IF i > Len(links) THEN [st |-> "pass", path |-> has_dropout_path]
    ELSE LET link == links[i] IN
        IF ~IsDict(link) THEN Fail(<<>>)
        ELSE IF PyIn("source", link) = "F" \/ PyIn("target", link) = "F"
                \/ PyIn("value", link) = "F"
        THEN Fail(<<>>)
        ELSE IF Get(link, "source") \notin node_ids \/ Get(link, "target") \notin node_ids
        THEN Fail(<<>>)
        ELSE IF ~IsNumber(Get(link, "value")) \/ Negative(Get(link, "value"))
        THEN Fail(<<>>)
        ELSE Dropout17Links(links, i + 1, nodes, node_ids,
                 has_dropout_path
                     \/ \E j \in 1..Len(nodes) :
                            /\ Get(nodes[j], "id") = Get(link, "target")
                            /\ Get(nodes[j], "name") = JStr("Discarded"))

\* pages/seventeen_Error_Dropout_Tracking.py: a bare bool, no message, no try.
validate_data_seventeen(d) ==
    IF ~IsDict(d) THEN Bare(FALSE)
    ELSE IF PyIn("nodes", d) = "F" \/ PyIn("links", d) = "F" THEN Bare(FALSE)
    ELSE IF ~IsList(Get(d, "nodes")) THEN Bare(FALSE)
    ELSE LET nodes == Get(d, "nodes").v
             ns == Dropout17Nodes(nodes, 1, {})
             has_discard_node ==
                 \E i \in 1..Len(nodes) : Get(nodes[i], "name") = JStr("Discarded")
         IN
        IF ns.st # "pass" THEN Bare(FALSE)
        ELSE IF ~IsList(Get(d, "links")) THEN Bare(FALSE)
        ELSE LET ls == Dropout17Links(Get(d, "links").v, 1, nodes, ns.ids, FALSE) IN
            IF ls.st # "pass" THEN Bare(FALSE)
            ELSE IF ~has_discard_node \/ ~ls.path THEN Bare(FALSE)
            ELSE Bare(TRUE)

(***************************************************************************)
(* Knowledge graph (pages/page08_Knowledge_Graph.py).                      *)
(***************************************************************************)
RECURSIVE KnowledgeGraphNodes(_, _, _)
KnowledgeGraphNodes(nodes, i, node_ids) ==
    IF i > Len(nodes) THEN [st |-> "pass", ids |-> node_ids]
    ELSE LET node == nodes[i] IN
        IF ~IsDict(node) THEN Fail(<<"Each", "node", "must", "be", "a", "dictionary">>)
        ELSE IF PyIn("id", node) = "F" \/ PyIn("label", node) = "F"
        THEN Fail(<<"Each", "node", "must", "have", "'id'", "and", "'label'", "fields">>)
        ELSE KnowledgeGraphNodes(nodes, i + 1, node_ids \cup {Get(node, "id")})

RECURSIVE KnowledgeGraphLinks(_, _, _)
KnowledgeGraphLinks(links, i, node_ids) ==
    IF i > Len(links) THEN Pass
    ELSE LET link == links[i] IN
        IF ~IsDict(link) THEN Fail(<<"Each", "link", "must", "be", "a", "dictionary">>)
        ELSE IF PyIn("source", link) = "F" \/ PyIn("target", link) = "F"
        THEN Fail(<<"Each", "link", "must", "have", "'source'", "and", "'target'",
                    "fields">>)
        ELSE IF Get(link, "source") \notin node_ids \/ Get(link, "target") \notin node_ids
        THEN Fail(<<"Link", "endpoints", "must", "reference", "existing", "node", "IDs">>)
        ELSE KnowledgeGraphLinks(links, i + 1, node_ids)

validate_knowledge_graph_data(d) ==
    IF ~IsDict(d) THEN Pair(FALSE, <<"Data", "must", "be", "a", "dictionary">>)
    ELSE IF PyIn("nodes", d) = "F" \/ PyIn("links", d) = "F"
    THEN Pair(FALSE, <<"Data", "must", "contain", "'nodes'", "and", "'links'", "keys">>)
    ELSE IF ~IsList(Get(d, "nodes")) \/ ~IsList(Get(d, "links"))
    THEN Pair(FALSE, <<"Both", "'nodes'", "and", "'links'", "must", "be", "arrays">>)
    ELSE IF Get(d, "nodes").v = <<>>
    THEN Pair(FALSE, <<"Graph", "must", "contain", "at", "least", "one", "node">>)
    ELSE LET ns == KnowledgeGraphNodes(Get(d, "nodes").v, 1, {}) IN
        IF ns.st # "pass" THEN Pair(FALSE, ns.msg)
        ELSE LET ls == KnowledgeGraphLinks(Get(d, "links").v, 1, ns.ids) IN
            IF ls.st # "pass" THEN Pair(FALSE, ls.msg)
            ELSE Pair(TRUE, <<"Valid", "knowledge", "graph", "data">>)

(***************************************************************************)
(* Relationship inference (pages/9_Relationship_Inference.py).             *)
(***************************************************************************)
RECURSIVE RelationshipNodes(_, _, _)
RelationshipNodes(nodes, i, node_ids) ==
    IF i > Len(nodes) THEN [st |-> "pass", ids |-> node_ids]
    ELSE LET node == nodes[i] IN
        IF ~IsDict(node) THEN Fail(<<"Each", "node", "must", "be", "an", "object">>)
        ELSE IF PyIn("id", node) = "F"
        THEN Fail(<<"Each", "node", "must", "have", "an", "'id'", "field">>)
        ELSE IF ~IsStr(Get(node, "id"))
        THEN Fail(<<"Node", "ID", "must", "be", "a", "string:", PyStr(Get(node, "id"))>>)
        ELSE IF Get(node, "id") \in node_ids
        THEN Fail(<<"Duplicate", "node", "ID", "found:", PyStr(Get(node, "id"))>>)
        ELSE IF PyIn("label", node) = "T" /\ ~IsStr(Get(node, "label"))
        THEN Fail(<<"Node", "label", "must", "be", "a", "string:", PyStr(Get(node, "id"))>>)
        ELSE RelationshipNodes(nodes, i + 1, node_ids \cup {Get(node, "id")})

RECURSIVE RelationshipLinks(_, _, _)
RelationshipLinks(links, i, node_ids) ==
    IF i > Len(links) THEN Pass
    ELSE LET link == links[i] IN
        IF ~IsDict(link) THEN Fail(<<"Each", "link", "must", "be", "an", "object">>)
        ELSE IF PyIn("source", link) = "F" \/ PyIn("target", link) = "F"
        THEN Fail(<<"Each", "link", "must", "have", "'source'", "and", "'target'",
                    "fields">>)
        ELSE IF ~IsStr(Get(link, "source")) \/ ~IsStr(Get(link, "target"))
        THEN Fail(<<"Link", "source", "and", "target", "must", "be", "strings">>)
        ELSE IF Get(link, "source") \notin node_ids
        THEN Fail(<<"Link", "source", "'" \o PyStr(Get(link, "source")) \o "'", "not",
                    "found", "in", "nodes">>)
        ELSE IF Get(link, "target") \notin node_ids
        THEN Fail(<<"Link", "target", "'" \o PyStr(Get(link, "target")) \o "'", "not",
                    "found", "in", "nodes">>)
        ELSE IF PyIn("type", link) = "T" /\ ~IsStr(Get(link, "type"))
        THEN Fail(<<"Link", "type", "must", "be", "a", "string:",
                    PyStr(Get(link, "source")), "->", PyStr(Get(link, "target"))>>)
        ELSE RelationshipLinks(links, i + 1, node_ids)

validate_data_relationship(d) ==
    IF ~IsDict(d) THEN Pair(FALSE, <<"Input", "must", "be", "a", "JSON", "object">>)
    ELSE IF PyIn("nodes", d) = "F" \/ ~IsList(Get(d, "nodes"))
    THEN Pair(FALSE, <<"Missing", "or", "invalid", "'nodes'", "array">>)
    ELSE IF PyIn("links", d) = "F" \/ ~IsList(Get(d, "links"))
    THEN Pair(FALSE, <<"Missing", "or", "invalid", "'links'", "array">>)
    ELSE IF Len(Get(d, "nodes").v) < 3
    THEN Pair(FALSE, <<"At", "least", "3", "nodes", "are", "required", "to",
                       "demonstrate", "relationships">>)
    ELSE LET ns == RelationshipNodes(Get(d, "nodes").v, 1, {}) IN
        IF ns.st # "pass" THEN Pair(FALSE, ns.msg)
        ELSE LET ls == RelationshipLinks(Get(d, "links").v, 1, ns.ids) IN
            IF ls.st # "pass" THEN Pair(FALSE, ls.msg)
            ELSE Pair(TRUE, <<"Data", "validation", "successful">>)

(***************************************************************************)
(* Domain taxonomy (pages/domain_taxonomy.py): validate_node.              *)
(***************************************************************************)
RECURSIVE validate_node_taxonomy(_)
RECURSIVE TaxonomyChildren(_, _)
TaxonomyChildren(children, i) ==
    IF i > Len(children) THEN Pass
    ELSE LET r == validate_node_taxonomy(children[i]) IN
        IF ~r.ok THEN Fail(<<"Invalid", "child", "node:">> \o r.msgs[1])
        ELSE TaxonomyChildren(children, i + 1)

validate_node_taxonomy(node) ==
    IF ~IsDict(node) THEN Pair(FALSE, <<"Node", "must", "be", "a", "dictionary">>)
    ELSE IF PyIn("name", node) = "F" \/ ~IsStr(Get(node, "name"))
            \/ Blank(Get(node, "name").v)
    THEN Pair(FALSE, <<"Node", "must", "have", "a", "non-empty", "name", "string">>)
    ELSE IF PyIn("count", node) = "F" \/ ~IsNumber(Get(node, "count"))
            \/ Negative(Get(node, "count"))
    THEN Pair(FALSE, <<"Node", "must", "have", "a", "non-negative", "count">>)
    ELSE IF PyIn("children", node) = "F" \/ ~IsList(Get(node, "children"))
    THEN Pair(FALSE, <<"Node", "must", "have", "a", "children", "array">>)
    ELSE LET c == TaxonomyChildren(Get(node, "children").v, 1) IN
        IF c.st = "fail" THEN Pair(FALSE, c.msg)
        ELSE Pair(TRUE, <<"Valid", "node">>)

(***************************************************************************)
(* Decision tree (pages/18_Decision_Tree_Breakdown.py).                    *)
(***************************************************************************)
\* The errors of one required string field.
DecisionStringField(node, field) ==
    IF PyIn(field, node) = "F"
    THEN <<<<"Missing", "required", "field", Quoted(field)>>>>
    ELSE IF ~IsStr(Get(node, field))
    THEN <<<<"Field", Quoted(field), "must", "be", "a", "string">>>>
    ELSE IF Blank(Get(node, field).v)
    THEN <<<<"Field", Quoted(field), "cannot", "be", "empty">>>>
    ELSE <<>>

DecisionSamples(node) ==
    IF PyIn("samples", node) = "F"
    THEN <<<<"Missing", "required", "field", "'samples'">>>>
    ELSE IF ~IsNumber(Get(node, "samples"))
    THEN <<<<"Field", "'samples'", "must", "be", "a", "number">>>>
    ELSE IF Negative(Get(node, "samples"))
    THEN <<<<"Field", "'samples'", "must", "be", "non-negative">>>>
    ELSE <<>>

\* Each error of a child, prefixed with the child's index.
InChild(i, errs) == [j \in 1..Len(errs) |-> <<"In", "child", IntStr(i) \o ":">> \o errs[j]]

RECURSIVE validate_node_decision(_)
RECURSIVE DecisionChildren(_, _)
DecisionChildren(children, i) ==
    IF i > Len(children) THEN <<>>
    ELSE (IF ~IsDict(children[i])
          THEN <<<<"Child", IntStr(i - 1), "must", "be", "an", "object">>>>
          ELSE InChild(i - 1, validate_node_decision(children[i])))
         \o DecisionChildren(children, i + 1)

\* validate_node: the list of errors of a node that is a dict.
validate_node_decision(node) ==
    DecisionStringField(node, "name") \o DecisionStringField(node, "condition")
    \o DecisionSamples(node)
    \o (IF PyIn("children", node) = "T"
        THEN IF ~IsList(Get(node, "children"))
             THEN <<<<"Field", "'children'", "must", "be", "an", "array">>>>
             ELSE DecisionChildren(Get(node, "children").v, 1)
        ELSE <<>>)

validate_tree_data(d) ==
    IF ~IsDict(d) THEN Errors(<<<<"Input", "must", "be", "a", "JSON", "object">>>>)
    ELSE Errors(validate_node_decision(d))

(***************************************************************************)
(* Hierarchical clustering (pages/19_Hierarchical_Clustering.py).          *)
(***************************************************************************)
\* The errors of the name field of a node on which `in` works.
ClusterName(node) ==
    IF PyIn("name", node) = "F"
    THEN <<<<"Missing", "required", "field", "'name'">>>>
    ELSE IF ~IsStr(Get(node, "name"))
    THEN <<<<"Field", "'name'", "must", "be", "a", "string">>>>
    ELSE IF Blank(Get(node, "name").v)
    THEN <<<<"Field", "'name'", "cannot", "be", "empty">>>>
    ELSE <<>>

\* validate_node: the errors of a node, or the exception that leaves it.
RECURSIVE validate_node_cluster(_)
\* The child loop from position i on: errors.extend(validate_node(child)).
RECURSIVE ClusterChildren(_, _, _)
ClusterChildren(children, i, errs) ==
    IF i > Len(children) THEN [st |-> "pass", errs |-> errs]
    ELSE LET r == validate_node_cluster(children[i]) IN
        IF r.st = "throw" THEN r
        ELSE ClusterChildren(children, i + 1, errs \o r.errs)

validate_node_cluster(node) ==
    IF PyIn("name", node) = "TypeError" THEN Throw("TypeError")
    ELSE IF ~IsDict(node) /\ (PyIn("name", node) = "T" \/ PyIn("children", node) = "T")
    THEN Throw("TypeError")
    ELSE IF ~IsDict(node)
    THEN [st |-> "pass", errs |-> <<<<"Missing", "required", "field", "'name'">>>>]
    ELSE IF PyIn("children", node) = "F"
    THEN [st |-> "pass", errs |-> ClusterName(node)]
    ELSE IF ~IsList(Get(node, "children"))
    THEN [st |-> "pass",
          errs |-> ClusterName(node)
                   \o <<<<"Field", "'children'", "must", "be", "an", "array">>>>]
    ELSE ClusterChildren(Get(node, "children").v, 1, ClusterName(node))

\* The call the page makes: validate_node(data).
validate_cluster(d) ==
    LET r == validate_node_cluster(d) IN
    IF r.st = "throw" THEN Raise(r.exc, <<>>) ELSE Errors(r.errs)

(***************************************************************************)
(* Nested feature categories (pages/20_nested_feature_categories.py).      *)
(***************************************************************************)
\* x.get(k, default) of a dict.
GetOr(d, k, default) == IF k \in Keys(d) THEN Get(d, k) ELSE default

\* The comparison turned round.
Exceeds20Reversed(tw, count) == tw < Twice(count)
\* child_count > node['count'] (20_nested_feature_categories.py), on doubled values.
Exceeds20(tw, count) == tw > Twice(count)
\* child_count > node_count (the page copy), both ints.
ExceedsPage(child_count, node_count) == child_count > node_count

LessThanSum(name, count, sum) ==
    <<"Node", Quoted(name), "count", Paren(count), "is", "less", "than", "sum", "of",
      "children", Paren(sum)>>

\* The result of validate_node: the errors, or the exception that leaves it.
RECURSIVE validate_node_nested20(_)
\* The child loop from position i on; child_count is kept as twice its value
\* (tw), with whether a float has been added (fl).
RECURSIVE Nested20Children(_, _, _, _, _)
Nested20Children(children, i, errs, tw, fl) ==
    IF i > Len(children) THEN [st |-> "pass", errs |-> errs, tw |-> tw, fl |-> fl]
    ELSE LET child == children[i]
             r == validate_node_nested20(child)
         IN
        IF r.st = "throw" THEN r
        ELSE LET c == GetOr(child, "count", JInt(0)) IN
            IF ~IsNumber(c) THEN Throw("TypeError")
            ELSE Nested20Children(children, i + 1, errs \o r.errs, tw + Twice(c),
                                  fl \/ c.t = "float")

validate_node_nested20(node) ==
    IF ~IsDict(node) THEN Throw("AttributeError")
    ELSE LET
        name == GetOr(node, "name", JNull)
        count == GetOr(node, "count", JNull)
        e1 == IF ~IsStr(name) \/ Blank(name.v)
              THEN <<<<"Node", "must", "have", "a", "non-empty", "string", "name">>>>
              ELSE <<>>
        e2 == IF ~IsInt(count) \/ Negative(count)
              THEN <<<<"Node", Quoted(PyStr(GetOr(node, "name", JStr("Unknown")))), "must",
                       "have", "a", "non-negative", "integer", "count">>>>
              ELSE <<>>
    IN
        IF PyIn("children", node) = "F" THEN [st |-> "pass", errs |-> e1 \o e2]
        ELSE IF ~IsList(Get(node, "children"))
        THEN IF PyIn("name", node) = "F" THEN Throw("KeyError")
             ELSE [st |-> "pass",
                   errs |-> e1 \o e2 \o <<<<"Node", Quoted(PyStr(name)), "children", "must",
                                            "be", "an", "array">>>>]
        ELSE LET cs == Nested20Children(Get(node, "children").v, 1, <<>>, 0, FALSE) IN
            IF cs.st = "throw" THEN cs
            ELSE IF PyIn("count", node) = "F" THEN Throw("KeyError")
            ELSE IF ~IsNumber(count) THEN Throw("TypeError")
            ELSE IF Exceeds20(cs.tw, count)
            THEN IF PyIn("name", node) = "F" THEN Throw("KeyError")
                 ELSE [st |-> "pass",
                       errs |-> e1 \o e2 \o cs.errs
                                \o <<LessThanSum(PyStr(name), PyStr(count),
                                                 NumStr(cs.tw, cs.fl))>>]
            ELSE [st |-> "pass", errs |-> e1 \o e2 \o cs.errs]

\* The call the page makes: validate_node(data, is_root=True).
validate_nested20(d) ==
    LET r == validate_node_nested20(d) IN
    IF r.st = "throw" THEN Raise(r.exc, <<>>) ELSE Errors(r.errs)

(***************************************************************************)
(* Nested feature categories, the second copy                              *)
(* (pages/page[0-9][0-9]_nested_feature_categories.py).  It assigns to     *)
(* node['count'], so a call yields the node as it leaves it as well.       *)
(***************************************************************************)
CountError == <<"must", "have", "a", "non-negative", "integer", "count">>
NameError == <<"Node", "must", "have", "a", "non-empty", "string", "name">>

\* The count block: the errors it appends and the value it stores in node['count'].
NestedPageCount(node) ==
    IF PyIn("count", node) = "F" THEN [errs |-> <<CountError>>, count |-> JInt(0)]
    ELSE LET c == PyInt(Get(node, "count")) IN
        IF c.exc # "none" THEN [errs |-> <<CountError>>, count |-> JInt(0)]
        ELSE IF c.v < 0 THEN [errs |-> <<CountError>>, count |-> JInt(c.v)]
        ELSE [errs |-> <<>>, count |-> JInt(c.v)]

RECURSIVE validate_node_nestedpage(_, _)
\* The child loop from position i on: done holds the children already visited, as
\* the calls left them.
RECURSIVE NestedPageChildren(_, _, _, _, _)
NestedPageChildren(children, i, done, errs, child_count) ==
    IF i > Len(children)
    THEN [st |-> "pass", errs |-> errs, children |-> done, sum |-> child_count]
    ELSE LET r == validate_node_nestedpage(children[i], FALSE) IN
        IF r.st = "throw"
        THEN [st |-> "throw", errs |-> errs, sum |-> child_count,
              children |-> done \o <<r.node>> \o SubSeq(children, i + 1, Len(children))]
        ELSE IF ~IsDict(r.node)
        THEN [st |-> "throw", errs |-> errs, sum |-> child_count,
              children |-> done \o SubSeq(children, i, Len(children))]
        ELSE LET c == PyInt(GetOr(r.node, "count", JInt(0))) IN
            NestedPageChildren(children, i + 1, done \o <<r.node>>, errs \o r.errs,
                               IF c.exc = "none" THEN child_count + c.v ELSE child_count)

validate_node_nestedpage(node, is_root) ==
    IF ~IsDict(node)
    THEN [st |-> "pass", errs |-> <<<<"Node", "must", "be", "a", "dictionary">>>>,
          node |-> node]
    ELSE LET
        node_name == GetOr(node, "name", JStr(""))
        badname == PyIn("name", node) = "F" \/ ~IsStr(node_name) \/ Blank(node_name.v)
        display_name == IF IsStr(node_name) /\ ~Blank(node_name.v) THEN node_name.v
                        ELSE "Unknown"
        e1 == IF badname THEN <<NameError>> ELSE <<>>
        cb == NestedPageCount(node)
        node1 == JDict(With(node.v, "count", cb.count))
        haslist == PyIn("children", node) = "T" /\ IsList(Get(node, "children"))
        cs == NestedPageChildren(Get(node, "children").v, 1, <<>>, <<>>, 0)
        node2 == IF haslist THEN JDict(With(node1.v, "children", JList(cs.children)))
                 ELSE node1
        e3 == IF PyIn("children", node) = "F" THEN <<>>
              ELSE IF ~haslist
              THEN <<<<"Node", Quoted(display_name), "children", "must", "be", "an",
                       "array">>>>
              ELSE cs.errs
                   \o (IF ExceedsPage(cs.sum, cb.count.v)
                       THEN <<LessThanSum(display_name, IntStr(cb.count.v), IntStr(cs.sum))>>
                       ELSE <<>>)
        e4 == IF ~is_root THEN <<>>
              ELSE (IF ~IsStr(node_name) \/ Blank(node_name.v) THEN <<NameError>> ELSE <<>>)
                   \o (IF ~haslist
                       THEN <<<<"Root", "node", "must", "have", "a", "children", "array">>>>
                       ELSE IF Get(node, "children").v = <<>>
                       THEN <<<<"Root", "node", "must", "have", "at", "least", "one",
                                "child">>>>
                       ELSE <<>>)
    IN
        IF haslist /\ cs.st = "throw"
        THEN [st |-> "throw", errs |-> <<>>, node |-> node2]
        ELSE [st |-> "pass", errs |-> e1 \o cb.errs \o e3 \o e4, node |-> node2]

\* The call the page makes, validate_node(data, is_root=True): its outcome and the
\* value of data after it.  A child that is no dict has no .get: AttributeError.
validate_nestedpage(d) ==
    LET r == validate_node_nestedpage(d, TRUE) IN
    [out |-> IF r.st = "throw" THEN Raise("AttributeError", <<>>) ELSE Errors(r.errs),
     node |-> r.node]

(***************************************************************************)
(* Neural network topology: validate_neural_network_data, in its two       *)
(* copies (pages/12_Neural_Network_Topology.py and                         *)
(* pages/twelve_Neural_Network_Topology.py).                               *)
(***************************************************************************)
\* utils/data_validation.py, validate_json_structure, every required field
\* being required to be a list.
validate_json_structure(d, required_fields) ==
    /\ IsDict(d)
    /\ \A field \in required_fields : field \in Keys(d) /\ IsList(Get(d, field))

\* The value of a key that cannot be hashed: `x in a_set` raises TypeError.
Unhashable(x) == x.t \in {"list", "dict"}

\* The node loop of a layer from position i on; node_layers maps the ids seen so
\* far to their layer (its domain is node_ids).
RECURSIVE NeuralNodes(_, _, _, _)
NeuralNodes(nodes, i, node_layers, layer_idx) ==
    IF i > Len(nodes) THEN [st |-> "pass", node_layers |-> node_layers]
    ELSE LET node == nodes[i] IN
        IF PyIn("id", node) = "TypeError" THEN Throw("TypeError")
        ELSE IF PyIn("id", node) = "F" THEN Fail(<<"Each", "node", "must", "have", "an", "id">>)
        ELSE IF ~IsDict(node) \/ Unhashable(Get(node, "id")) THEN Throw("TypeError")
        ELSE IF Get(node, "id") \in DOMAIN node_layers
        THEN Fail(<<"Duplicate", "node", "id", "found:", PyStr(Get(node, "id"))>>)
        ELSE NeuralNodes(nodes, i + 1,
                         [x \in (DOMAIN node_layers) \cup {Get(node, "id")} |->
                             IF x = Get(node, "id") THEN layer_idx ELSE node_layers[x]],
                         layer_idx)

LayerTypes == {JStr("input"), JStr("hidden"), JStr("output")}

\* The layer loop of the first copy from position i on; layer_indices holds the
\* indices seen so far, as twice their value.
RECURSIVE NeuralLayers12(_, _, _, _)
NeuralLayers12(layers, i, layer_indices, node_layers) ==
    IF i > Len(layers)
    THEN [st |-> "pass", layer_indices |-> layer_indices, node_layers |-> node_layers]
    ELSE LET layer == layers[i] IN
        IF ~IsDict(layer) THEN Throw("AttributeError")
        ELSE LET layer_idx == GetOr(layer, "layerIndex", JNull)
                 layer_type == GetOr(layer, "layerType", JStr("hidden"))
                 nodes == GetOr(layer, "nodes", JNull)
             IN
            IF ~IsNumber(layer_idx)
            THEN Fail(<<"Each", "layer", "must", "have", "a", "numeric", "layerIndex">>)
            ELSE IF Twice(layer_idx) \in layer_indices
            THEN Fail(<<"Duplicate", "layer", "index", "found:", PyStr(layer_idx)>>)
            ELSE IF layer_type \notin LayerTypes
            THEN Fail(<<"Invalid", "layer", "type:", PyStr(layer_type)>>)
            ELSE IF ~IsList(nodes)
            THEN Fail(<<"Each", "layer", "must", "have", "a", "nodes", "array">>)
            ELSE IF nodes.v = <<>>
            THEN Fail(<<"Layer", PyStr(layer_idx), "has", "no", "nodes">>)
            ELSE LET ns == NeuralNodes(nodes.v, 1, node_layers, layer_idx) IN
                IF ns.st # "pass" THEN ns
                ELSE NeuralLayers12(layers, i + 1, layer_indices \cup {Twice(layer_idx)},
                                    ns.node_layers)

\* The layer loop of the second copy: the index and the nodes, nothing else.
RECURSIVE NeuralLayersTwelve(_, _, _)
NeuralLayersTwelve(layers, i, node_layers) ==
    IF i > Len(layers) THEN [st |-> "pass", node_layers |-> node_layers]
    ELSE LET layer == layers[i] IN
        IF ~IsDict(layer) THEN Throw("AttributeError")
        ELSE IF ~IsNumber(GetOr(layer, "layerIndex", JNull))
        THEN Fail(<<"Each", "layer", "must", "have", "a", "numeric", "layerIndex">>)
        ELSE IF ~IsList(GetOr(layer, "nodes", JNull))
        THEN Fail(<<"Each", "layer", "must", "have", "a", "nodes", "array">>)
        ELSE LET ns == NeuralNodes(Get(layer, "nodes").v, 1, node_layers,
                                   Get(layer, "layerIndex")) IN
            IF ns.st # "pass" THEN ns
            ELSE NeuralLayersTwelve(layers, i + 1, ns.node_layers)

\* The checks both copies make of a connection before any layer ordering: its
\* fields and its references.
ConnectionRefs(conn, node_ids) ==
    IF PyIn("source", conn) = "TypeError" THEN Throw("TypeError")
    ELSE IF PyIn("source", conn) = "F" \/ PyIn("target", conn) = "F"
    THEN Fail(<<"Each", "connection", "must", "have", "source", "and", "target">>)
    ELSE IF ~IsDict(conn) \/ Unhashable(Get(conn, "source")) THEN Throw("TypeError")
    ELSE IF Get(conn, "source") \notin node_ids
    THEN Fail(<<"Invalid", "source", "node", "id:", PyStr(Get(conn, "source"))>>)
    ELSE IF Unhashable(Get(conn, "target")) THEN Throw("TypeError")
    ELSE IF Get(conn, "target") \notin node_ids
    THEN Fail(<<"Invalid", "target", "node", "id:", PyStr(Get(conn, "target"))>>)
    ELSE Pass
\* The check of the weight, the last one of a connection in both copies.
ConnectionWeight(conn) ==
    IF "weight" \in Keys(conn) /\ ~IsNumber(Get(conn, "weight"))
    THEN Fail(<<"Connection", "weight", "must", "be", "numeric">>)
    ELSE Pass

\* source_layer >= target_layer.
NotBefore(source_layer, target_layer) == Twice(source_layer) >= Twice(target_layer)

\* The connection loop of the first copy from position i on.
RECURSIVE NeuralConnections12(_, _, _)
NeuralConnections12(conns, i, node_layers) ==
    IF i > Len(conns) THEN Pass
    ELSE LET conn == conns[i]
             refs == ConnectionRefs(conn, DOMAIN node_layers)
         IN
        IF refs.st # "pass" THEN refs
        ELSE LET source_layer == node_layers[Get(conn, "source")]
                 target_layer == node_layers[Get(conn, "target")]
             IN
            IF NotBefore(source_layer, target_layer)
            THEN Fail(<<"Invalid", "connection:", "source", "layer",
                        Paren(PyStr(source_layer)), "must", "be", "before", "target",
                        "layer", Paren(PyStr(target_layer))>>)
            ELSE IF ConnectionWeight(conn).st # "pass" THEN ConnectionWeight(conn)
            ELSE NeuralConnections12(conns, i + 1, node_layers)

\* The connection loop of the second copy from position i on.
RECURSIVE NeuralConnectionsTwelve(_, _, _)
NeuralConnectionsTwelve(conns, i, node_ids) ==
    IF i > Len(conns) THEN Pass
    ELSE LET refs == ConnectionRefs(conns[i], node_ids) IN
        IF refs.st # "pass" THEN refs
        ELSE IF ConnectionWeight(conns[i]).st # "pass" THEN ConnectionWeight(conns[i])
        ELSE NeuralConnectionsTwelve(conns, i + 1, node_ids)

\* next((l for l in layers if l.get("layerType") == type), None): the position of
\* the first layer of that type, 0 if there is none.
FirstOfType(layers, type) ==
    LET S == {i \in 1..Len(layers) : GetOr(layers[i], "layerType", JNull) = JStr(type)} IN
    IF S = {} THEN 0 ELSE CHOOSE i \in S : \A j \in S : i <= j

\* layer_indices != set(range(len(layer_indices))), on the doubled indices.
NotSequential(layer_indices) ==
    layer_indices # {2 * k : k \in 0..(Cardinality(layer_indices) - 1)}

\* The checks of the first copy between the layer loop and the connection loop.
NeuralLayout12(layers, layer_indices) ==
    LET input_layer == FirstOfType(layers, "input")
        output_layer == FirstOfType(layers, "output")
    IN
    IF NotSequential(layer_indices)
    THEN Fail(<<"Layer", "indices", "must", "be", "sequential", "starting", "from", "0">>)
    ELSE IF input_layer = 0
    THEN Fail(<<"Network", "must", "have", "an", "input", "layer">>)
    ELSE IF output_layer = 0
    THEN Fail(<<"Network", "must", "have", "an", "output", "layer">>)
    ELSE IF Twice(Get(layers[input_layer], "layerIndex")) # 0
    THEN Fail(<<"Input", "layer", "must", "have", "index", "0">>)
    ELSE IF Twice(Get(layers[output_layer], "layerIndex"))
                # 2 * (Cardinality(layer_indices) - 1)
    THEN Fail(<<"Output", "layer", "must", "be", "the", "last", "layer">>)
    ELSE Pass

\* What a copy returns for the outcome c of its checks.
NeuralVerdict(c) ==
    CASE c.st = "pass" -> Pair(TRUE, <<"Data", "validation", "successful">>)
      [] c.st = "fail" -> Pair(FALSE, c.msg)
      [] OTHER -> Raise(c.exc, <<>>)

NeuralStructureMessage ==
    <<"Data", "must", "contain", "'layers'", "and", "'connections'", "arrays">>

\* pages/12_Neural_Network_Topology.py.
validate_neural_network_data_12(d) ==
    IF ~validate_json_structure(d, {"layers", "connections"})
    THEN Pair(FALSE, NeuralStructureMessage)
    ELSE IF Len(Get(d, "layers").v) < 2
    THEN Pair(FALSE, <<"Network", "must", "have", "at", "least", "2", "layers", "(input",
                       "and", "output)">>)
    ELSE LET ls == NeuralLayers12(Get(d, "layers").v, 1, {}, <<>>) IN
        IF ls.st # "pass" THEN NeuralVerdict(ls)
        ELSE LET lo == NeuralLayout12(Get(d, "layers").v, ls.layer_indices) IN
            IF lo.st # "pass" THEN NeuralVerdict(lo)
            ELSE NeuralVerdict(NeuralConnections12(Get(d, "connections").v, 1,
                                                   ls.node_layers))

\* pages/twelve_Neural_Network_Topology.py.
validate_neural_network_data_twelve(d) ==
    IF ~validate_json_structure(d, {"layers", "connections"})
    THEN Pair(FALSE, NeuralStructureMessage)
    ELSE LET ls == NeuralLayersTwelve(Get(d, "layers").v, 1, <<>>) IN
        IF ls.st # "pass" THEN NeuralVerdict(ls)
        ELSE NeuralVerdict(NeuralConnectionsTwelve(Get(d, "connections").v, 1,
                                                   DOMAIN ls.node_layers))

(***************************************************************************)
(* Confusion matrix (utils/data_validation.py, validate_confusion_matrix). *)
(***************************************************************************)
\* len(x) can be taken: a list or a string of the model.
HasLen(x) == x.t \in {"list", "str"}
\* len(x) of a list; a string of the model that stands for a row is "ab".
PyLen(x) == IF x.t = "list" THEN Len(x.v) ELSE 2

\* The row is longer than there are classes: a comparison that misses short rows.
RowTooLong(row, classes) == PyLen(row) > Len(classes.v)
\* len(row) != len(classes).
RowNotSquare(row, classes) == PyLen(row) # Len(classes.v)

\* The loop over the values of a row from position i on.
RECURSIVE MatrixValues(_, _)
MatrixValues(row, i) ==
    IF i > Len(row) THEN Pass
    ELSE IF ~IsNumber(row[i]) THEN Fail(<<"Matrix", "values", "must", "be", "numbers">>)
    ELSE IF Negative(row[i]) THEN Fail(<<"Matrix", "values", "must", "be", "non-negative">>)
    ELSE MatrixValues(row, i + 1)

\* The loop over the rows from position i on.
RECURSIVE MatrixRows(_, _, _)
MatrixRows(matrix, i, classes) ==
    IF i > Len(matrix) THEN Pass
    ELSE LET row == matrix[i] IN
        IF ~HasLen(row) THEN Throw("TypeError")
        ELSE IF RowNotSquare(row, classes) THEN Fail(<<"Matrix", "must", "be", "square">>)
        ELSE IF IsStr(row) THEN Fail(<<"Matrix", "values", "must", "be", "numbers">>)
        ELSE LET vs == MatrixValues(row.v, 1) IN
            IF vs.st # "pass" THEN vs ELSE MatrixRows(matrix, i + 1, classes)

\* The whole body is in a try whose handler returns
\* (False, "Error validating data: ...") for any exception.
validate_confusion_matrix(d) ==
    IF ~IsDict(d) THEN Pair(FALSE, <<"Data", "must", "be", "a", "dictionary">>)
    ELSE IF PyIn("classes", d) = "F" \/ PyIn("matrix", d) = "F"
    THEN Pair(FALSE, <<"Data", "must", "contain", "'classes'", "and", "'matrix'", "keys">>)
    ELSE LET classes == Get(d, "classes")
             matrix == Get(d, "matrix")
         IN
        IF ~IsList(classes) THEN Pair(FALSE, <<"Classes", "must", "be", "a", "list">>)
        ELSE IF Len(classes.v) < 2
        THEN Pair(FALSE, <<"Must", "have", "at", "least", "2", "classes">>)
        ELSE IF ~IsList(matrix) THEN Pair(FALSE, <<"Matrix", "must", "be", "a", "list">>)
        ELSE IF Len(classes.v) # Len(matrix.v)
        THEN Pair(FALSE, <<"Number", "of", "classes", "must", "match", "matrix",
                           "dimensions">>)
        ELSE LET rs == MatrixRows(matrix.v, 1, classes) IN
            CASE rs.st = "pass" -> Pair(TRUE, <<"Valid", "confusion", "matrix", "data">>)
              [] rs.st = "fail" -> Pair(FALSE, rs.msg)
              [] OTHER -> Pair(FALSE, <<"Error", "validating", "data:", ExceptionText>>)

(***************************************************************************)
(* The inputs of the model: JSON values of the node/link shape and of the  *)
(* tree shape, well formed and malformed.                                  *)
(***************************************************************************)
Absent == [t |-> "absent"]
\* The dict with the fields of f that are present.
Strip(f) == JDict([k \in {j \in DOMAIN f : f[j] # Absent} |-> f[k]])

\* Nodes {id, name} and links {source, target, value}: pipeline flow and
\* error/dropout tracking.  A non-object element is null or a string.
FlowNodeElems ==
    {JNull, JStr("a")}
    \cup {Strip(f) : f \in [id : {Absent, JInt(0), JInt(1), JStr("a")},
                            name : {Absent, JStr("a"), JStr("Discarded")}]}
FlowLinkElems ==
    {JNull}
    \cup {Strip(f) : f \in [source : {Absent, JInt(0), JInt(2)},
                            target : {Absent, JInt(1), JInt(2)},
                            value : {Absent, JInt(-1), JInt(5), JStr("5")}]}
\* Nodes {id, label} and links {source, target}: knowledge graph.
LabelNodeElems ==
    {JNull}
    \cup {Strip(f) : f \in [id : {Absent, JInt(0), JStr("a")},
                            label : {Absent, JStr("a")}]}
LabelLinkElems ==
    {JNull}
    \cup {Strip(f) : f \in [source : {Absent, JInt(0), JStr("a"), JInt(2)},
                            target : {Absent, JInt(0), JStr("a"), JInt(2)}]}

\* A field that should hold an array: missing, null, or an array.
ArrayField(elems, n) == {Absent, JNull} \cup {JList(q) : q \in SeqUpTo(elems, n)}

RootScalars == {JNull, JInt(1), JStr("a"), JList(<<>>)}

\* Nodes and links with nothing wrong in themselves, and a few values of a links
\* field: missing, null, empty, a good link, a null element, and a link that is
\* both dangling and negative.
GoodFlowNodes ==
    {JDict([id |-> JInt(0), name |-> JStr("a")]),
     JDict([id |-> JInt(1), name |-> JStr("Discarded")])}
FewFlowLinks ==
    {Absent, JNull, JList(<<>>), JList(<<JNull>>),
     JList(<<JDict([source |-> JInt(0), target |-> JInt(1), value |-> JInt(5)])>>),
     JList(<<JDict([source |-> JInt(0), target |-> JInt(2), value |-> JInt(-1)])>>)}
GoodLabelNodes ==
    {JDict([id |-> JInt(0), label |-> JStr("a")]),
     JDict([id |-> JStr("a"), label |-> JStr("a")])}
FewLabelLinks ==
    {Absent, JNull, JList(<<>>), JList(<<JNull>>),
     JList(<<JDict([source |-> JInt(0), target |-> JInt(0)])>>),
     JList(<<JDict([source |-> JInt(0), target |-> JInt(2)])>>)}

\* The values a nodes or links field takes.
FlowNodeFields == ArrayField(FlowNodeElems, MaxNodes)
FlowLinkFields == ArrayField(FlowLinkElems, MaxLinks)
LabelNodeFields == ArrayField(LabelNodeElems, MaxNodes)
LabelLinkFields == ArrayField(LabelLinkElems, MaxLinks)
GoodFlowNodeLists == {JList(q) : q \in SeqUpTo(GoodFlowNodes, MaxNodes)}
GoodLabelNodeLists == {JList(q) : q \in SeqUpTo(GoodLabelNodes, MaxNodes)}
GraphOf(n, l) == Strip([nodes |-> n, links |-> l])

\* d is an input of the node/link shape: a scalar, or every list of nodes with a
\* few lists of links, or every list of links with the lists of good nodes.
GraphInput(d) ==
    \/ d \in RootScalars
    \/ \E n \in FlowNodeFields, l \in FewFlowLinks : d = GraphOf(n, l)
    \/ \E n \in GoodFlowNodeLists, l \in FlowLinkFields : d = GraphOf(n, l)
    \/ \E n \in LabelNodeFields, l \in FewLabelLinks : d = GraphOf(n, l)
    \/ \E n \in GoodLabelNodeLists, l \in LabelLinkFields : d = GraphOf(n, l)

\* Networks: layers {layerIndex, layerType, nodes} and connections {source,
\* target, weight}.  The layer at position p of the list holds one node, "n" p.
NodeName(p) == JStr("n" \o IntStr(p))
NetNode(p) == JDict([id |-> NodeName(p)])
LayerKinds ==
    [layerIndex : {JInt(k) : k \in 0..(MaxLayers - 1)},
     layerType : {Absent} \cup LayerTypes]
LayerOf(kind, p) ==
    Strip([layerIndex |-> kind.layerIndex, layerType |-> kind.layerType,
           nodes |-> JList(<<NetNode(p)>>)])
LayersOf(q) == JList([p \in 1..Len(q) |-> LayerOf(q[p], p)])
\* Lists of layers with something wrong in one layer or one node: an element that
\* is no object, an index that is missing or a string, a type that is none of
\* the three, nodes missing or empty, a node that is null or has no id, an id
\* used twice.
In0 == [layerIndex |-> JInt(0), layerType |-> JStr("input")]
Out1 == [layerIndex |-> JInt(1), layerType |-> JStr("output")]
OddLayers ==
    {JList(<<LayerOf(In0, 1), x>>) :
        x \in {JNull,
               JDict([layerType |-> JStr("output"), nodes |-> JList(<<NetNode(2)>>)]),
               JDict([layerIndex |-> JStr("1"), nodes |-> JList(<<NetNode(2)>>)]),
               JDict([layerIndex |-> JInt(1), layerType |-> JStr("conv"),
                      nodes |-> JList(<<NetNode(2)>>)]),
               JDict([layerIndex |-> JInt(1), layerType |-> JStr("output")]),
               JDict([layerIndex |-> JInt(1), layerType |-> JStr("output"),
                      nodes |-> JList(<<>>)]),
               JDict([layerIndex |-> JInt(1), layerType |-> JStr("output"),
                      nodes |-> JList(<<JNull>>)]),
               JDict([layerIndex |-> JInt(1), layerType |-> JStr("output"),
                      nodes |-> JList(<<EmptyDict>>)]),
               LayerOf(Out1, 1)}}
Conn(s, t) == JDict([source |-> NodeName(s), target |-> NodeName(t)])
\* A few values of a connections field: missing, null, empty, a connection
\* forward, backward, within a layer, to a node that does not exist, with a
\* weight that is no number, and elements that are no connection.
FewConnections ==
    {Absent, JNull, JList(<<>>), JList(<<Conn(1, 2)>>), JList(<<Conn(2, 1)>>),
     JList(<<Conn(1, 1)>>), JList(<<Conn(1, 9)>>),
     JList(<<JDict([source |-> NodeName(1), target |-> NodeName(2),
                    weight |-> JStr("x")])>>),
     JList(<<JNull>>), JList(<<JDict([source |-> NodeName(1)])>>)}
NetOf(l, c) == Strip([layers |-> l, connections |-> c])
\* d is an input of the network shape.
NetInput(d) ==
    \/ d \in RootScalars
    \/ \E l \in {Absent, JNull}, c \in FewConnections : d = NetOf(l, c)
    \/ \E q \in SeqUpTo(LayerKinds, MaxLayers), c \in FewConnections :
          d = NetOf(LayersOf(q), c)
    \/ \E l \in OddLayers, c \in FewConnections : d = NetOf(l, c)

\* Confusion matrices: classes and a matrix of rows.  A row is a list of counts
\* of any length up to MaxClasses + 1, or one of a few odd rows: null, a string,
\* a row with a negative value or with a value that is no number.
ClassLists == {JList([i \in 1..n |-> JStr("c")]) : n \in 0..MaxClasses}
GoodRows == {JList([i \in 1..n |-> JInt(1)]) : n \in 0..(MaxClasses + 1)}
OddRows ==
    {JNull, JStr("ab"), JList(<<JInt(-1)>>), JList(<<JStr("x")>>),
     JList(<<JInt(1), JInt(-1)>>), JList(<<JInt(1), JStr("x")>>)}
MatrixFields ==
    {Absent, JNull} \cup {JList(q) : q \in SeqUpTo(GoodRows \cup OddRows, MaxClasses)}
MatrixOf(c, m) == Strip([classes |-> c, matrix |-> m])
\* d is an input of the confusion-matrix shape.
MatrixInput(d) ==
    \/ d \in RootScalars
    \/ \E c \in {Absent, JNull} \cup ClassLists, m \in MatrixFields : d = MatrixOf(c, m)

\* The fields of a tree node other than children: one valid pair, and each way
\* for the count or the name to be wrong.
TreeFields ==
    {[name |-> JStr("a"), count |-> c] :
        c \in {Absent, JInt(-1), JInt(1), JInt(2), JStr("2"), JFloat(1, TRUE)}}
    \cup {[name |-> Absent, count |-> JInt(1)]}
\* Fewer of them, for the trees of the decision-tree schema.
FewTreeFields ==
    {[name |-> JStr("a"), count |-> c] : c \in {Absent, JInt(-1), JInt(1), JInt(2)}}

\* A tree node with fields f and children c.
TreeOf(f, c) == Strip([name |-> f.name, count |-> f.count, children |-> c])
\* The fields with nothing wrong.
GoodTreeFields == {[name |-> JStr("a"), count |-> JInt(c)] : c \in {1, 2}}
\* The trees of one node with fields from F: an element that is no object, one
\* node with null for its children, one with null for its count, a node without
\* children, and a good node with an empty list of children.
Leaves(F) ==
    {JNull, JDict([name |-> JStr("a"), count |-> JInt(1), children |-> JNull]),
     JDict([name |-> JStr("a"), count |-> JNull])}
    \cup {TreeOf(f, Absent) : f \in F}
    \cup {TreeOf(f, JList(<<>>)) : f \in GoodTreeFields}
\* Trees of exactly n nodes with fields from F, and the lists of trees of n nodes
\* in all.
RECURSIVE Trees(_, _)
RECURSIVE Forests(_, _)
Forests(n, F) ==
    IF n = 0 THEN {<<>>}
    ELSE UNION {{<<t>> \o q : t \in Trees(m, F), q \in Forests(n - m, F)} : m \in 1..n}
Trees(n, F) ==
    IF n = 0 THEN {}
    ELSE IF n = 1 THEN Leaves(F)
    ELSE {TreeOf(f, JList(q)) : f \in F, q \in Forests(n - 1, F)}
\* The lists of children of a root: at least one child, fewer than MaxTreeSize
\* nodes in all.
ChildLists(F) == UNION {Forests(m, F) : m \in 1..(MaxTreeSize - 1)}
CountChildLists == ChildLists(TreeFields)
DecisionChildLists == ChildLists(FewTreeFields)

\* The same tree in the decision-tree schema: samples for count, and a condition.
RECURSIVE AsDecisionTree(_)
AsDecisionTree(x) ==
    IF ~IsDict(x) THEN x
    ELSE JDict([k \in ({"condition"} \cup {IF j = "count" THEN "samples" ELSE j : j \in Keys(x)}) |->
                  CASE k = "condition" -> JStr("c")
                    [] k = "samples" -> Get(x, "count")
                    [] k = "children" ->
                          IF IsList(Get(x, "children"))
                          THEN JList([i \in 1..Len(Get(x, "children").v) |->
                                         AsDecisionTree(Get(x, "children").v[i])])
                          ELSE Get(x, "children")
                    [] OTHER -> Get(x, k)])

\* d is an input of the tree shape: a scalar, or a tree of at most MaxTreeSize
\* nodes in the name/count schema or in the decision-tree schema.
TreeInput(d) ==
    \/ d \in RootScalars
    \/ d \in Leaves(TreeFields)
    \/ \E f \in TreeFields, q \in CountChildLists : d = TreeOf(f, JList(q))
    \/ \E x \in Leaves(FewTreeFields) : d = AsDecisionTree(x)
    \/ \E f \in FewTreeFields, q \in DecisionChildLists :
          d = AsDecisionTree(TreeOf(f, JList(q)))

(***************************************************************************)
(* Calls of the validators.  A call leaves its outcome in result, what it  *)
(* wrote to the page in ui, and the value it was given in data.            *)
(***************************************************************************)
NoPage == [name |-> "none"]
IdleRender ==
    /\ page = "none"
    /\ session = NoPage
    /\ widget = NoPage
    /\ shown = NoPage

\* A validator that assigns nothing and writes nothing.
PureCall(name, out) ==
    /\ call' = name
    /\ result' = out
    /\ ui' = <<>>
    /\ UNCHANGED <<data, orig>>
    /\ UNCHANGED rvars

Call_pipeline_page13 == PureCall("pipeline_page13", validate_pipeline_data_page13(data))
Call_pipeline_13 == PureCall("pipeline_13", validate_pipeline_data_13(data))
Call_pipeline_thirteen ==
    PureCall("pipeline_thirteen", validate_pipeline_data_thirteen(data))
Call_dropout_seventeen == PureCall("dropout_seventeen", validate_data_seventeen(data))
Call_knowledge_graph == PureCall("knowledge_graph", validate_knowledge_graph_data(data))

Call_dropout_17 ==
    LET r == validate_data_17(data) IN
    /\ call' = "dropout_17"
    /\ result' = r.out
    /\ ui' = r.ui
    /\ UNCHANGED <<data, orig>>
    /\ UNCHANGED rvars

Call_taxonomy == PureCall("taxonomy", validate_node_taxonomy(data))
Call_decision == PureCall("decision", validate_tree_data(data))
Call_nested20 == PureCall("nested20", validate_nested20(data))
Call_cluster == PureCall("cluster", validate_cluster(data))

Call_nestedpage ==
    LET r == validate_nestedpage(data) IN
    /\ call' = "nestedpage"
    /\ result' = r.out
    /\ ui' = <<>>
    /\ data' = r.node
    /\ UNCHANGED orig
    /\ UNCHANGED rvars

InitCall ==
    /\ orig = data
    /\ call = "none"
    /\ result = NoResult
    /\ ui = <<>>
    /\ IdleRender

\* Node/link validators on node/link inputs.
Init ==
    /\ GraphInput(data)
    /\ InitCall

Next ==
    \/ Call_pipeline_page13
    \/ Call_pipeline_13
    \/ Call_pipeline_thirteen
    \/ Call_dropout_17
    \/ Call_dropout_seventeen
    \/ Call_knowledge_graph

Spec == Init /\ [][Next]_vars

(***************************************************************************)
(* The treemap of the taxonomy page (pages/domain_taxonomy.py).            *)
(***************************************************************************)
\* process_data_for_treemap: the entries of a node and of its descendants, in
\* the order of the four arrays (ids, labels, parents, values).
RECURSIVE process_data_for_treemap(_, _, _)
RECURSIVE TreemapChildren(_, _, _, _)
TreemapChildren(children, i, current_id, level) ==
    IF i > Len(children) THEN <<>>
    ELSE process_data_for_treemap(children[i], current_id, level + 1)
         \o TreemapChildren(children, i + 1, current_id, level)

process_data_for_treemap(node, parent_id, level) ==
    LET current_id == IntStr(level) \o "_" \o PyStr(Get(node, "name")) IN
    <<[id |-> current_id, label |-> Get(node, "name"), parent |-> parent_id,
       value |-> Get(node, "count")]>>
    \o TreemapChildren(Get(node, "children").v, 1, current_id, level)

\* main() of the taxonomy page after validate_node has accepted data:
\* create_visualization(data) builds the arrays of the treemap.
Chart_taxonomy ==
    /\ call = "taxonomy"
    /\ result.ok
    /\ shown' = [name |-> "treemap", of |-> data,
                 entries |-> process_data_for_treemap(data, "", 0)]
    /\ UNCHANGED <<data, orig, call, result, ui, page, session, widget>>

\* Tree validators on tree inputs.
InitTree ==
    /\ TreeInput(data)
    /\ InitCall

NextTree ==
    \/ Call_taxonomy
    \/ Call_decision
    \/ Call_nested20
    \/ Call_nestedpage
    \/ Call_cluster
    \/ Chart_taxonomy

SpecTree == InitTree /\ [][NextTree]_vars

\* Network validators on network inputs.
Call_neural_12 == PureCall("neural_12", validate_neural_network_data_12(data))
Call_neural_twelve == PureCall("neural_twelve", validate_neural_network_data_twelve(data))

InitNet ==
    /\ NetInput(data)
    /\ InitCall

NextNet ==
    \/ Call_neural_12
    \/ Call_neural_twelve

SpecNet == InitNet /\ [][NextNet]_vars

\* The confusion-matrix validator on confusion-matrix inputs.
Call_confusion_matrix == PureCall("confusion_matrix", validate_confusion_matrix(data))

InitMatrix ==
    /\ MatrixInput(data)
    /\ InitCall

NextMatrix == Call_confusion_matrix

SpecMatrix == InitMatrix /\ [][NextMatrix]_vars

(***************************************************************************)
(* Page renders.  A render is one run of a page's main(): the user changes *)
(* at most one widget, Streamlit runs the script from the top with the     *)
(* widgets' values and the session state, and the script writes the page.  *)
(***************************************************************************)
\* The content of an upload or of a text area: nothing, text that is no JSON, or
\* the JSON text of a value.
NoText == [kind |-> "empty", v |-> JNull]
Garbage == [kind |-> "garbage", v |-> JNull]
JsonText(v) == [kind |-> "json", v |-> v]
\* json.loads / json.load: the value, or JSONDecodeError.
json_loads(t) ==
    IF t.kind = "json" THEN [exc |-> "none", v |-> t.v]
    ELSE [exc |-> "JSONDecodeError", v |-> JNull]
\* bool(x) of a JSON value.
Truthy(x) ==
    CASE x.t = "null" -> FALSE
      [] x.t = "int" -> x.v # 0
      [] x.t = "float" -> x.v # 0 \/ x.half
      [] x.t = "str" -> x.v # ""
      [] x.t = "list" -> x.v # <<>>
      [] x.t = "dict" -> Keys(x) # {}

FlowNode(id, name) == JDict([id |-> JInt(id), name |-> JStr(name)])
FlowLink(s, t, v) == JDict([source |-> JInt(s), target |-> JInt(t), value |-> JInt(v)])
FlowData(ns, ls) == JDict([nodes |-> JList(ns), links |-> JList(ls)])
\* load_sample_data() of the pipeline pages: the sample file, a valid pipeline.
SamplePipeline ==
    FlowData(<<FlowNode(0, "a"), FlowNode(1, "Discarded")>>, <<FlowLink(0, 1, 5)>>)
\* What a user uploads or pastes on a pipeline page: null, a valid pipeline that
\* is not the sample, one with a dangling link, one whose node is null, and two
\* whose first node has null for its name (which the validator does not look at),
\* without and with a link.
PipelineDocs ==
    {JNull,
     FlowData(<<FlowNode(0, "a"), FlowNode(1, "a")>>, <<>>),
     FlowData(<<FlowNode(0, "a"), FlowNode(1, "a")>>, <<FlowLink(0, 2, 5)>>),
     FlowData(<<JNull>>, <<>>),
     FlowData(<<JDict([id |-> JInt(0), name |-> JNull]), FlowNode(1, "a")>>, <<>>),
     FlowData(<<JDict([id |-> JInt(0), name |-> JNull]), FlowNode(1, "a")>>,
              <<FlowLink(0, 1, 5)>>)}

LabelNode(id) == JDict([id |-> JStr(id), label |-> JStr(id)])
LabelLink(s, t) == JDict([source |-> JStr(s), target |-> JStr(t)])
\* load_sample_data() of the relationship page: the sample file, a valid graph.
SampleRelationship ==
    FlowData(<<LabelNode("a"), LabelNode("b"), LabelNode("c")>>, <<LabelLink("a", "b")>>)
\* What a user uploads or pastes there: an empty object, a valid graph that is
\* not the sample, one with too few nodes, one with a dangling link, one without
\* links, and one whose node has no id.
RelationshipDocs ==
    {EmptyDict,
     FlowData(<<LabelNode("a"), LabelNode("b"), LabelNode("c")>>, <<>>),
     FlowData(<<LabelNode("a")>>, <<>>),
     FlowData(<<LabelNode("a"), LabelNode("b"), LabelNode("c")>>, <<LabelLink("a", "d")>>),
     JDict([nodes |-> JList(<<LabelNode("a"), LabelNode("b"), LabelNode("c")>>)]),
     FlowData(<<LabelNode("a"), LabelNode("b"), JDict([label |-> JStr("c")])>>, <<>>)}

Sources == {"Sample", "Upload", "Paste"}

\* The session state and the page before the first run.
NewSession(p) == [name |-> p, data |-> JNull, show_filtered |-> TRUE, clicked_node |-> JNull]
NothingShown(p) ==
    [name |-> p, errors |-> <<>>, info |-> <<>>, preview |-> Absent, charted |-> Absent,
     highlight |-> JNull, crashed |-> "none"]
\* st.error(m), st.info(m) on a page.
StError(sh, m) == [sh EXCEPT !.errors = @ \o <<m>>]
StInfo(sh, m) == [sh EXCEPT !.info = @ \o <<m>>]

\* The messages of the pipeline pages for a missing and for an unparsable input.
PleaseProvide(src) ==
    IF src = "Upload" THEN <<"Please", "upload", "a", "JSON", "file">>
    ELSE <<"Please", "paste", "your", "JSON", "data">>
InvalidJson(src) ==
    IF src = "Upload" THEN <<"Invalid", "JSON", "file", "format">>
    ELSE <<"Invalid", "JSON", "format">>

\* The widgets of a pipeline page: the radio, the checkbox, and the uploader or
\* text area of the chosen source.  A change of source shows a new, empty input.
PipelineWidgets0 == [source |-> "Sample", show_filtered |-> TRUE, input |-> NoText]
PipelineInputs == {NoText, Garbage} \cup {JsonText(v) : v \in PipelineDocs}
PipelineChanges(w) ==
    {w}
    \cup {[w EXCEPT !.source = src, !.input = NoText] : src \in Sources}
    \cup {[w EXCEPT !.show_filtered = b] : b \in BOOLEAN}
    \cup (IF w.source = "Sample" THEN {}
          ELSE {[w EXCEPT !.input = t] : t \in PipelineInputs})

\* The ids a click on the chart of d, valid data, can carry: customdata of its nodes.
ClickTargets(d) ==
    {JNull} \cup {Get(d, "nodes").v[i].v.id : i \in 1..Len(Get(d, "nodes").v)}

\* The end of a run of a pipeline page in which the validator was called.
RanValidator(name, d, r) ==
    /\ call' = name
    /\ result' = r
    /\ data' = d
    /\ orig' = d
    /\ ui' = <<>>
\* ... and in which it was not.
NoValidator ==
    /\ call' = "none"
    /\ result' = NoResult
    /\ data' = JNull
    /\ orig' = JNull
    /\ ui' = <<>>

\* `"Set" in x` raises TypeError: x is None or a number.
NoContainer(x) == x.t \in {"null", "int", "float"}
\* `"Set" in s` for a string of the model.
ContainsSet(s) == s \in {"Set", "Training Set", "Test Set"}
\* The statistics of valid data d: final_output evaluates, for each link, the
\* names of the nodes up to the first one that counts as output and is the
\* link's target.  The exception it raises, or "none".
StatsError(d) ==
    LET ns == Get(d, "nodes").v
        ls == Get(d, "links").v
        hit(n, l) == /\ IsStr(Get(n, "name"))
                     /\ ContainsSet(Get(n, "name").v) \/ Get(n, "name") = JStr("Final Dataset")
                     /\ Get(n, "id") = Get(l, "target")
    IN
    IF \E i \in 1..Len(ls), k \in 1..Len(ns) :
           /\ NoContainer(Get(ns[k], "name"))
           /\ \A j \in 1..(k - 1) : ~hit(ns[j], ls[i])
    THEN "TypeError" ELSE "none"
\* create_sankey_diagram(d): node_colors tests "Set" in node["name"] for every
\* node whose name is neither "Raw Data" nor "Filtered Out".
SankeyError(d) ==
    IF \E k \in 1..Len(Get(d, "nodes").v) : NoContainer(Get(Get(d, "nodes").v[k], "name"))
    THEN "TypeError" ELSE "none"
\* str(e) follows "Error processing data:" in the page's message.
ErrorProcessing == <<"Error", "processing", "data:", ExceptionText>>
ErrorCreating == <<"Error", "creating", "visualization:", ExceptionText>>

\* The statistics and the chart of valid data, and the click on a node of the
\* chart: it stores the node in the session and runs the script again, which
\* draws the same chart with that node highlighted.
ShowPipeline(sh, sess, d, click) ==
    LET clicked == IF click = JNull THEN sess.clicked_node ELSE click IN
    /\ shown' = [sh EXCEPT !.charted = d, !.highlight = clicked]
    /\ session' = [sess EXCEPT !.clicked_node = clicked]

\* pages/page13_Data_Pipeline_Flow.py, main().
Render_pipeline_page13 ==
    /\ page = "pipeline_page13"
    /\ \E w \in PipelineChanges(widget) :
        LET sess0 == [session EXCEPT !.show_filtered = w.show_filtered]
            data0 == sess0.data
            parsed == json_loads(w.input)
            loaded == w.source # "Sample" /\ w.input # NoText /\ parsed.exc = "none"
            data1 == IF w.source = "Sample" THEN (IF data0 = JNull THEN SamplePipeline ELSE data0)
                     ELSE IF loaded THEN parsed.v
                     ELSE data0
            sess1 == IF (w.source = "Sample" /\ data0 = JNull) \/ loaded
                     THEN [sess0 EXCEPT !.data = data1] ELSE sess0
            sh0 == NothingShown("pipeline_page13")
            sh1 == IF w.source = "Sample" THEN sh0
                   ELSE IF w.input = NoText
                   THEN StInfo(sh0, PleaseProvide(w.source))
                   ELSE IF parsed.exc # "none"
                   THEN StError(sh0, InvalidJson(w.source))
                   ELSE sh0
            r == validate_pipeline_data_page13(data1)
        IN
        /\ widget' = w
        /\ page' = page
        /\ IF data1 = JNull
           THEN /\ NoValidator
                /\ shown' = sh1
                /\ session' = sess1
           ELSE /\ RanValidator("pipeline_page13", data1, r)
                /\ IF r.kind = "raise"
                   THEN /\ shown' = [StError(sh1, <<"Error", "processing", "data:">>)
                                        EXCEPT !.crashed = r.exc]
                        /\ session' = sess1
                   ELSE IF ~r.ok
                   THEN /\ shown' = StError(sh1, <<"Invalid", "data:">> \o r.msgs[1])
                        /\ session' = [sess1 EXCEPT !.data = JNull]
                   ELSE IF StatsError(data1) # "none"
                   THEN /\ shown' = [StError(sh1, ErrorProcessing)
                                        EXCEPT !.crashed = StatsError(data1)]
                        /\ session' = sess1
                   ELSE IF SankeyError(data1) # "none"
                   THEN /\ shown' = [StError(StError(sh1, ErrorCreating), ErrorProcessing)
                                        EXCEPT !.crashed = SankeyError(data1)]
                        /\ session' = sess1
                   ELSE \E click \in ClickTargets(data1) :
                            ShowPipeline(sh1, sess1, data1, click)

\* pages/13_Data_Pipeline_Flow.py, main().
Render_pipeline_13 ==
    /\ page = "pipeline_13"
    /\ \E w \in PipelineChanges(widget) :
        LET sess0 == [session EXCEPT !.show_filtered = w.show_filtered]
            parsed == json_loads(w.input)
            sh0 == NothingShown("pipeline_13")
            data1 == IF w.source = "Sample" THEN SamplePipeline ELSE parsed.v
            r == validate_pipeline_data_13(data1)
        IN
        /\ widget' = w
        /\ page' = page
        /\ IF w.source # "Sample" /\ w.input = NoText
           THEN /\ NoValidator
                /\ shown' = StInfo(sh0, PleaseProvide(w.source))
                /\ session' = sess0
           ELSE IF w.source # "Sample" /\ parsed.exc # "none"
           THEN /\ NoValidator
                /\ shown' = StError(sh0, InvalidJson(w.source))
                /\ session' = sess0
           ELSE IF data1 = JNull
           THEN /\ NoValidator
                /\ shown' = sh0
                /\ session' = sess0
           ELSE /\ RanValidator("pipeline_13", data1, r)
                /\ IF r.kind = "raise" /\ r.exc = "ValueError"
                   THEN /\ shown' = StError(sh0, <<"Invalid", "data:">> \o r.msgs[1])
                        /\ session' = sess0
                   ELSE IF r.kind = "raise"
                   THEN /\ shown' = StError(sh0, <<"Error", "processing", "data:">>)
                        /\ session' = sess0
                   ELSE IF StatsError(data1) # "none" \/ SankeyError(data1) # "none"
                   THEN /\ shown' = StError(sh0, ErrorProcessing)
                        /\ session' = sess0
                   ELSE \E click \in ClickTargets(data1) :
                            ShowPipeline(sh0, sess0, data1, click)

\* The widgets of the relationship page: a radio and an input in the sidebar, a
\* radio and an input in the page.  The sidebar's text area starts with the
\* sample's JSON.
RelationshipWidgets0 ==
    [side_source |-> "Sample", side_input |-> NoText, source |-> "Sample", input |-> NoText]
SideInputs == {NoText, Garbage, JsonText(SampleRelationship), JsonText(EmptyDict)}
RelationshipInputs == {NoText, Garbage} \cup {JsonText(v) : v \in RelationshipDocs}
RelationshipChanges(w) ==
    {w}
    \cup {[w EXCEPT !.side_source = src,
                    !.side_input = IF src = "Paste" THEN JsonText(SampleRelationship)
                                   ELSE NoText] : src \in Sources}
    \cup {[w EXCEPT !.source = src, !.input = NoText] : src \in Sources}
    \cup (IF w.side_source = "Sample" THEN {}
          ELSE {[w EXCEPT !.side_input = t] : t \in SideInputs})
    \cup (IF w.source = "Sample" THEN {}
          ELSE {[w EXCEPT !.input = t] : t \in RelationshipInputs})

\* Building the graph from data['nodes'] and data['links']: the exception that
\* stops it, or "none".
BuildGraph(d) ==
    IF ~IsDict(d) THEN "TypeError"
    ELSE IF "nodes" \notin Keys(d) THEN "KeyError"
    ELSE IF ~IsList(Get(d, "nodes")) THEN "TypeError"
    ELSE LET ns == Get(d, "nodes").v IN
        IF \E i \in 1..Len(ns) : ~IsDict(ns[i]) THEN "TypeError"
        ELSE IF \E i \in 1..Len(ns) : "id" \notin Keys(ns[i]) THEN "KeyError"
        ELSE IF "links" \notin Keys(d) THEN "KeyError"
        ELSE IF ~IsList(Get(d, "links")) THEN "TypeError"
        ELSE LET ls == Get(d, "links").v IN
            IF \E i \in 1..Len(ls) : ~IsDict(ls[i]) THEN "TypeError"
            ELSE IF \E i \in 1..Len(ls) : {"source", "target"} \ Keys(ls[i]) # {}
            THEN "KeyError"
            ELSE "none"

\* pages/9_Relationship_Inference.py, main().  validate_data returns a pair, and
\* `not` of a pair is False: neither `if not validate_data(data)` is ever taken.
Render_relationship ==
    /\ page = "relationship"
    /\ \E w \in RelationshipChanges(widget) :
        LET sh0 == IF w.source = "Sample"
                   THEN StInfo(NothingShown("relationship"),
                               <<"Sample", "data", "loaded", "successfully!">>)
                   ELSE NothingShown("relationship")
            side == json_loads(w.side_input)
            side_validated == /\ w.side_source # "Sample"
                              /\ ~(w.side_source = "Upload" /\ w.side_input = NoText)
                              /\ side.exc = "none"
            side_failed == /\ w.side_source # "Sample"
                           /\ ~(w.side_source = "Upload" /\ w.side_input = NoText)
                           /\ side.exc # "none"
            parsed == json_loads(w.input)
            data1 == IF w.source = "Sample" THEN SampleRelationship
                     ELSE IF w.input = NoText THEN JNull
                     ELSE parsed.v
            r == validate_data_relationship(data1)
            built == BuildGraph(data1)
        IN
        /\ widget' = w
        /\ page' = page
        /\ session' = session
        /\ IF side_failed
           THEN /\ NoValidator
                /\ shown' = StError(NothingShown("relationship"),
                                     IF w.side_source = "Upload"
                                     THEN <<"Invalid", "JSON", "file.", "Please", "check",
                                            "the", "format.">>
                                     ELSE <<"Invalid", "JSON", "format.", "Please", "check",
                                            "the", "syntax.">>)
           ELSE IF w.source # "Sample" /\ w.input # NoText /\ parsed.exc # "none"
           THEN /\ IF side_validated
                   THEN RanValidator("relationship", side.v, validate_data_relationship(side.v))
                   ELSE NoValidator
                /\ shown' = StError(sh0, IF w.source = "Upload"
                                         THEN <<"Error:", "Invalid", "JSON", "file">>
                                         ELSE <<"Error:", "Invalid", "JSON", "format">>)
           ELSE IF ~Truthy(data1)
           THEN /\ IF side_validated
                   THEN RanValidator("relationship", side.v, validate_data_relationship(side.v))
                   ELSE NoValidator
                /\ shown' = sh0
           ELSE /\ RanValidator("relationship", data1, r)
                /\ shown' = IF built = "none"
                            THEN [sh0 EXCEPT !.preview = data1, !.charted = data1]
                            ELSE [sh0 EXCEPT !.preview = data1, !.crashed = built]

\* load_sample_data() of the network page: the sample file, a valid network.
NetLayer(idx, type, p) ==
    JDict([layerIndex |-> JInt(idx), layerType |-> JStr(type), nodes |-> JList(<<NetNode(p)>>)])
SampleNetwork ==
    JDict([layers |-> JList(<<NetLayer(0, "input", 1), NetLayer(1, "output", 2)>>),
           connections |-> JList(<<Conn(1, 2)>>)])
\* What a user uploads or pastes there: null, a valid network that is not the
\* sample, one with another output node, one whose layer indices skip 1, and
\* one whose layer is null.
NeuralDocs ==
    {JNull,
     JDict([layers |-> JList(<<NetLayer(0, "input", 1), NetLayer(1, "output", 2)>>),
            connections |-> JList(<<>>)]),
     JDict([layers |-> JList(<<NetLayer(0, "input", 1), NetLayer(1, "output", 3)>>),
            connections |-> JList(<<Conn(1, 3)>>)]),
     JDict([layers |-> JList(<<NetLayer(0, "input", 1), NetLayer(2, "output", 2)>>),
            connections |-> JList(<<>>)]),
     JDict([layers |-> JList(<<NetLayer(0, "input", 1), JNull>>),
            connections |-> JList(<<>>)])}
\* What the user did between two runs of the network page: the node clicked on
\* the chart (none: JNull) and whether "Clear Selection" was pressed.
NoEvent == [click |-> JNull, clear |-> FALSE]
\* The widgets of the network page: the radio and the uploader or text area;
\* with them the event of the last run and whether a node was ever clicked.
NeuralWidgets0 == [source |-> "Sample", input |-> NoText, event |-> NoEvent, touched |-> FALSE]
NeuralInputs == {NoText, Garbage} \cup {JsonText(v) : v \in NeuralDocs}
NeuralChanges(w) ==
    {w}
    \cup {[w EXCEPT !.source = src, !.input = NoText] : src \in Sources}
    \cup (IF w.source = "Sample" THEN {} ELSE {[w EXCEPT !.input = t] : t \in NeuralInputs})
\* The nodes a click on the chart of d, valid data, can select (none: JNull).
NeuralClickTargets(d) ==
    {JNull} \cup {Get(d, "layers").v[i].v.nodes.v[1].v.id : i \in 1..Len(Get(d, "layers").v)}
\* G.nodes() of the graph built from d, valid data: the nodes of the layers
\* (every connection of valid data joins two of them).
GraphNodes(d) ==
    LET layers == Get(d, "layers").v IN
    {Get(layers[i].v.nodes.v[j], "id") : <<i, j>> \in
        {<<i, j>> \in (1..Len(layers)) \X (1..MaxNodes) : j <= Len(layers[i].v.nodes.v)}}
\* What the network page shows: as on the other pages, and the "Selected Node"
\* panel with its node and whether its details and button were reached.
NeuralShown ==
    [name |-> "neural_12", errors |-> <<>>, info |-> <<>>, preview |-> Absent,
     charted |-> Absent, highlight |-> JNull, crashed |-> "none",
     panel |-> Absent, details |-> FALSE]
\* The session of the network page before the first run: no 'clicked_node'.
NewNeuralSession == [NewSession("neural_12") EXCEPT !.clicked_node = Absent]
\* main() from the chart on, for valid data d: the session entry is created,
\* the click stored, the panel drawn for a selected node; G.nodes[...] of a
\* node that G has not raises KeyError, caught by `except Exception`; "Clear
\* Selection" stores None and st.rerun() runs main() again from the top, with
\* no click and the button not pressed.
ShowNetwork(sess, d, event) ==
    LET s1 == IF sess.clicked_node = Absent THEN [sess EXCEPT !.clicked_node = JNull]
              ELSE sess
        s2 == IF event.click = JNull THEN s1 ELSE [s1 EXCEPT !.clicked_node = event.click]
        sel == s2.clicked_node
        chart == [NeuralShown EXCEPT !.charted = d]
    IN
    IF ~Truthy(sel)
    THEN [sess |-> s2, sh |-> chart]
    ELSE IF sel \notin GraphNodes(d)
    THEN [sess |-> s2, sh |-> StError([chart EXCEPT !.panel = sel], ErrorProcessing)]
    ELSE IF event.clear
    THEN [sess |-> [s2 EXCEPT !.clicked_node = JNull], sh |-> chart]
    ELSE [sess |-> s2, sh |-> [chart EXCEPT !.panel = sel, !.details = TRUE]]

\* pages/12_Neural_Network_Topology.py, main(): everything from the loading of
\* the data on is in one try, whose only handler is `except Exception`.
Render_neural_12 ==
    /\ page = "neural_12"
    /\ \E w \in NeuralChanges(widget) :
        LET parsed == json_loads(w.input)
            sh0 == NeuralShown
            quiet == [w EXCEPT !.event = NoEvent]
            data1 == IF w.source = "Sample" THEN SampleNetwork ELSE parsed.v
            r == validate_neural_network_data_12(data1)
        IN
        /\ page' = page
        /\ IF w.source # "Sample" /\ w.input = NoText
           THEN /\ NoValidator
                /\ shown' = StInfo(sh0, PleaseProvide(w.source))
                /\ session' = session
                /\ widget' = quiet
           ELSE IF w.source # "Sample" /\ parsed.exc # "none"
           THEN /\ NoValidator
                /\ shown' = StError(sh0, ErrorProcessing)
                /\ session' = session
                /\ widget' = quiet
           ELSE /\ RanValidator("neural_12", data1, r)
                /\ IF r.kind = "raise"
                   THEN /\ shown' = StError(sh0, ErrorProcessing)
                        /\ session' = session
                        /\ widget' = quiet
                   ELSE IF ~r.ok
                   THEN /\ shown' = StError(sh0, <<"Invalid", "data:">> \o r.msgs[1])
                        /\ session' = session
                        /\ widget' = quiet
                   ELSE \E click \in NeuralClickTargets(data1), clear \in BOOLEAN :
                        LET event == [click |-> click, clear |-> clear]
                            out == ShowNetwork(session, data1, event)
                        IN
                        \* the button pressed is the one of the panel on the screen
                        /\ clear => /\ shown.details
                                    /\ click = JNull
                                    /\ w.source = widget.source /\ w.input = widget.input
                        /\ shown' = out.sh
                        /\ session' = out.sess
                        /\ widget' = [w EXCEPT !.event = event,
                                               !.touched = @ \/ click # JNull]

RenderPages == {"relationship", "pipeline_page13", "pipeline_13", "neural_12"}
InitRender ==
    /\ page \in RenderPages
    /\ session = IF page = "neural_12" THEN NewNeuralSession ELSE NewSession(page)
    /\ widget = CASE page = "relationship" -> RelationshipWidgets0
                   [] page = "neural_12" -> NeuralWidgets0
                   [] OTHER -> PipelineWidgets0
    /\ shown = IF page = "neural_12" THEN NeuralShown ELSE NothingShown(page)
    /\ data = JNull
    /\ orig = JNull
    /\ call = "none"
    /\ result = NoResult
    /\ ui = <<>>

NextRender ==
    \/ Render_relationship
    \/ Render_pipeline_page13
    \/ Render_pipeline_13
    \/ Render_neural_12

SpecRender == InitRender /\ [][NextRender]_vars

(***************************************************************************)
(* What an input contains, stated on the input itself.                     *)
(***************************************************************************)
\* The elements of the array under key k, if data has one.
ArrayOf(d, k) ==
    IF IsDict(d) /\ k \in Keys(d) /\ IsList(Get(d, k)) THEN Get(d, k).v ELSE <<>>
\* The ids of the declared nodes.
DeclaredIds(d) ==
    {Get(ArrayOf(d, "nodes")[i], "id") :
        i \in {j \in 1..Len(ArrayOf(d, "nodes")) :
                  IsDict(ArrayOf(d, "nodes")[j]) /\ "id" \in Keys(ArrayOf(d, "nodes")[j])}}
\* Two nodes carry the same identifier.
HasDuplicateId(d) ==
    LET ns == ArrayOf(d, "nodes") IN
    \E i, j \in 1..Len(ns) :
        /\ i < j
        /\ IsDict(ns[i]) /\ IsDict(ns[j])
        /\ "id" \in Keys(ns[i]) /\ "id" \in Keys(ns[j])
        /\ Get(ns[i], "id") = Get(ns[j], "id")
\* The endpoints of links that are the id of no declared node.
DanglingRefs(d) ==
    LET ls == ArrayOf(d, "links") IN
    {Get(ls[i], k) : <<i, k>> \in
        {p \in (1..Len(ls)) \X {"source", "target"} :
            /\ IsDict(ls[p[1]])
            /\ p[2] \in Keys(ls[p[1]])
            /\ Get(ls[p[1]], p[2]) \notin DeclaredIds(d)}}
\* The required top-level keys that data, a dict, lacks.
MissingTopKeys(d) == IF IsDict(d) THEN {"nodes", "links"} \ Keys(d) ELSE {}
\* A link holds a negative value.
HasNegativeValue(d) ==
    LET ls == ArrayOf(d, "links") IN
    \E i \in 1..Len(ls) :
        /\ IsDict(ls[i]) /\ "value" \in Keys(ls[i])
        /\ IsNumber(Get(ls[i], "value")) /\ Negative(Get(ls[i], "value"))

\* A flow input of the right shape: at least two nodes, each an object with a
\* distinct integer id and a name, one of them the "Discarded" node the drop-out
\* page asks for, and every link an object with source, target and a number as
\* value.  Its links may still point nowhere or carry a negative value; in
\* FlowCleanButRefs only the endpoints may be wrong.
FlowShaped(d) ==
    LET ns == ArrayOf(d, "nodes")
        ls == ArrayOf(d, "links")
    IN
    /\ IsDict(d) /\ Keys(d) = {"nodes", "links"}
    /\ IsList(Get(d, "nodes")) /\ IsList(Get(d, "links"))
    /\ Len(ns) >= 2
    /\ \A i \in 1..Len(ns) :
          IsDict(ns[i]) /\ Keys(ns[i]) = {"id", "name"} /\ IsInt(Get(ns[i], "id"))
    /\ \E i \in 1..Len(ns) : Get(ns[i], "name") = JStr("Discarded")
    /\ ~HasDuplicateId(d)
    /\ \A i \in 1..Len(ls) :
          /\ IsDict(ls[i]) /\ Keys(ls[i]) = {"source", "target", "value"}
          /\ IsNumber(Get(ls[i], "value"))
FlowCleanButRefs(d) == FlowShaped(d) /\ ~HasNegativeValue(d)

\* Every message of the last call: returned, carried by the exception, or written
\* to the page.
Messages == result.msgs \o ui
Called == call # "none"
\* The call gave a negative verdict: it returned one, or raised ValueError, which
\* is how the validators of the raising convention give theirs.
Rejected == ~result.ok /\ (result.kind = "return" \/ result.exc = "ValueError")
FlowValidators ==
    {"pipeline_page13", "pipeline_13", "pipeline_thirteen", "dropout_17",
     "dropout_seventeen"}

(***************************************************************************)
(* Claims.                                                                 *)
(***************************************************************************)
\* C1: whatever the input, a validator call ends in a verdict (a negative one with
\* a reason when the input is malformed); no exception other than the verdict
\* leaves the validator.
C1_NoExceptionEscapes == Called => (result.kind = "return" \/ result.exc = "ValueError")

\* C3: no validator has a side effect: after any sequence of calls the input
\* equals what it was before them, and the validator wrote nothing to the page.
C3_NoSideEffect == data = orig /\ ui = <<>>

\* C5: when two nodes carry the same identifier, a node/link validator returns
\* invalid (with a message that mentions uniqueness or duplication): at the
\* least, it does not accept the input.
C5_DuplicateIdRejected == (Called /\ HasDuplicateId(orig)) => ~result.ok

\* C6: when a link's source or target is the id of no declared node, a
\* node/link validator returns invalid with a message about the dangling
\* reference.  Stated for inputs in which nothing else is wrong.
MentionsReference(m) ==
    \/ HasWord(m, "reference")
    \/ HasWord(m, "endpoints")
    \/ HasPhrase(m, <<"not", "found">>)
    \/ \E r \in DanglingRefs(orig) : HasWord(m, PyStr(r)) \/ HasWord(m, Quoted(PyStr(r)))
C6_DanglingLinkRejected ==
    (call \in FlowValidators /\ FlowCleanButRefs(orig) /\ DanglingRefs(orig) # {}) =>
        (Rejected /\ \E i \in 1..Len(Messages) : MentionsReference(Messages[i]))

\* C7: when the input lacks a required field, a validator returns invalid with
\* a message that names the missing field.
NamesField(m, k) == HasWord(m, k) \/ HasWord(m, Quoted(k))
C7_MissingFieldNamed ==
    (Called /\ MissingTopKeys(orig) # {}) =>
        (Rejected /\ \A k \in MissingTopKeys(orig) :
                        \E i \in 1..Len(Messages) : NamesField(Messages[i], k))

\* C8: when a link value, which must be non-negative, is negative, the
\* validator returns invalid: at the least, it does not accept the input.
C8_NegativeValueRejected ==
    (call \in FlowValidators /\ HasNegativeValue(orig)) => ~result.ok

\* The aggregate value of a tree node: its count, or its samples in the
\* decision-tree schema.
Aggregate(n) ==
    IF "count" \in Keys(n) THEN Get(n, "count")
    ELSE IF "samples" \in Keys(n) THEN Get(n, "samples")
    ELSE JNull
\* Somewhere in the tree a child's aggregate value, a number, exceeds its parent's.
RECURSIVE ChildExceedsParent(_)
ChildExceedsParent(x) ==
    /\ IsDict(x) /\ "children" \in Keys(x) /\ IsList(Get(x, "children"))
    /\ \E i \in 1..Len(Get(x, "children").v) :
          LET c == Get(x, "children").v[i] IN
          \/ /\ IsDict(c) /\ IsNumber(Aggregate(x)) /\ IsNumber(Aggregate(c))
             /\ Twice(Aggregate(c)) > Twice(Aggregate(x))
          \/ ChildExceedsParent(c)
\* The same, the counts being taken as int() gives them.
RECURSIVE ChildExceedsAsInt(_)
ChildExceedsAsInt(x) ==
    /\ IsDict(x) /\ "children" \in Keys(x) /\ IsList(Get(x, "children"))
    /\ \E i \in 1..Len(Get(x, "children").v) :
          LET c == Get(x, "children").v[i] IN
          \/ /\ IsDict(c) /\ "count" \in Keys(x) /\ "count" \in Keys(c)
             /\ PyInt(Get(x, "count")).exc = "none" /\ PyInt(Get(c, "count")).exc = "none"
             /\ PyInt(Get(c, "count")).v > PyInt(Get(x, "count")).v
          \/ ChildExceedsAsInt(c)

PipelineValidators == {"pipeline_page13", "pipeline_13", "pipeline_thirteen"}
\* The check the last call of a pipeline validator reported, read off its outcome.
ReportedCheck ==
    LET m == result.msgs[1] IN
    IF result.ok THEN "none"
    ELSE IF result.exc \notin {"none", "ValueError"} THEN result.exc
    ELSE IF HasWord(m, "dictionary") THEN "root"
    ELSE IF HasWord(m, "keys") THEN "keys"
    ELSE IF HasPhrase(m, <<"Each", "node">>) THEN "node fields"
    ELSE IF HasWord(m, "integer") THEN "id type"
    ELSE IF HasWord(m, "unique") THEN "unique"
    ELSE IF HasPhrase(m, <<"Each", "link">>) THEN "link fields"
    ELSE IF HasWord(m, "reference") THEN "reference"
    ELSE IF HasWord(m, "non-negative") THEN "value"
    ELSE IF HasPhrase(m, <<"at", "least", "2", "nodes">>) THEN "node count"
    ELSE "other"

\* What is wrong with node i of ns, the nodes before it being in order; and with
\* a link, ids being the declared ids.
NodeFault(ns, i) ==
    LET n == ns[i] IN
    IF n.t \notin {"dict", "list", "str"} THEN "TypeError"
    ELSE IF ~IsDict(n)
    THEN IF PyIn("id", n) = "T" /\ PyIn("name", n) = "T" THEN "TypeError"
         ELSE "node fields"
    ELSE IF {"id", "name"} \ Keys(n) # {} THEN "node fields"
    ELSE IF ~IsInt(Get(n, "id")) THEN "id type"
    ELSE IF \E j \in 1..(i - 1) :
                IsDict(ns[j]) /\ "id" \in Keys(ns[j]) /\ Get(ns[j], "id") = Get(n, "id")
    THEN "unique"
    ELSE "none"
LinkFault(l, ids) ==
    IF l.t \notin {"dict", "list", "str"} THEN "TypeError"
    ELSE IF ~IsDict(l)
    THEN IF \A k \in {"source", "target", "value"} : PyIn(k, l) = "T" THEN "TypeError"
         ELSE "link fields"
    ELSE IF {"source", "target", "value"} \ Keys(l) # {} THEN "link fields"
    ELSE IF {Get(l, "source"), Get(l, "target")} \ ids # {} THEN "reference"
    ELSE IF ~IsNumber(Get(l, "value")) \/ Negative(Get(l, "value")) THEN "value"
    ELSE "none"
Least(S) == CHOOSE i \in S : \A j \in S : i <= j
\* The first thing wrong with d on the way: root type, top-level keys, the nodes
\* one after the other, the links one after the other, the number of nodes.
ExpectedCheck(d) ==
    IF ~IsDict(d) THEN "root"
    ELSE IF {"nodes", "links"} \ Keys(d) # {} THEN "keys"
    ELSE IF ~IsList(Get(d, "nodes")) THEN "TypeError"
    ELSE LET ns == Get(d, "nodes").v
             badnodes == {i \in 1..Len(ns) : NodeFault(ns, i) # "none"}
         IN
        IF badnodes # {} THEN NodeFault(ns, Least(badnodes))
        ELSE IF ~IsList(Get(d, "links")) THEN "TypeError"
        ELSE LET ls == Get(d, "links").v
                 badlinks == {i \in 1..Len(ls) : LinkFault(ls[i], DeclaredIds(d)) # "none"}
             IN
            IF badlinks # {} THEN LinkFault(ls[Least(badlinks)], DeclaredIds(d))
            ELSE IF Len(ns) < 2 THEN "node count"
            ELSE "none"

C2_RejectionStopsRender ==
    (page # "none" /\ Called /\ Rejected) =>
        (shown.errors # <<>> /\ shown.preview = Absent /\ shown.charted = Absent)

\* The data the widgets of this render designate: the sample, or what the
\* uploaded or pasted text holds.
Designated ==
    IF widget.source = "Sample"
    THEN (CASE page = "relationship" -> SampleRelationship
            [] page = "neural_12" -> SampleNetwork
            [] OTHER -> SamplePipeline)
    ELSE json_loads(widget.input).v
\* C4: the data a render shows is built in that render from its input source;
\* nothing loaded by an earlier render is carried over.
C4_DataFreshPerRender ==
    (page # "none" /\ shown.charted # Absent) => shown.charted = Designated

\* The child indices (from 0, as Python counts) at which x, an object with a
\* sound name and at least two children, has a child object without a name;
\* and the same anywhere below x.
NamelessAt(x) ==
    IF IsDict(x) /\ "name" \in Keys(x) /\ "children" \in Keys(x)
           /\ IsList(Get(x, "children")) /\ Len(Get(x, "children").v) >= 2
    THEN {i - 1 : i \in {j \in 1..Len(Get(x, "children").v) :
                            /\ IsDict(Get(x, "children").v[j])
                            /\ "name" \notin Keys(Get(x, "children").v[j])}}
    ELSE {}
\* Message m carries child index i: as a word of its own or before a colon.
CarriesIndex(m, i) ==
    \/ HasWord(m, IntStr(i)) \/ HasWord(m, IntStr(i) \o ":")
    \/ HasWord(m, "[" \o IntStr(i) \o "]")
\* C11: a tree validator descends into the children, and the error it reports
\* for a node below the root carries a path or a child index: when one of
\* several children of the root has no name, the tree is rejected and a message
\* carries the index of that child.
C11_DescendantErrorLocalized ==
    [][NamelessAt(data) # {} =>
          /\ ~result'.ok
          /\ \A i \in NamelessAt(data) :
                \E k \in 1..Len(result'.msgs) : CarriesIndex(result'.msgs[k], i)]_vars

\* The number of nodes of a tree the taxonomy validator accepts.
RECURSIVE TreeSize(_)
RECURSIVE ForestSize(_, _)
ForestSize(children, i) ==
    IF i > Len(children) THEN 0
    ELSE TreeSize(children[i]) + ForestSize(children, i + 1)
TreeSize(x) == 1 + ForestSize(Get(x, "children").v, 1)
\* C12: every node of a validated input appears exactly once in the chart
\* builder's output: as many entries as nodes, and no two entries under the
\* same identifier.
C12_EachNodeOnce ==
    shown.name = "treemap" =>
        /\ Len(shown.entries) = TreeSize(shown.of)
        /\ \A i, j \in 1..Len(shown.entries) :
              i # j => shown.entries[i].id # shown.entries[j].id

\* The layers of d, where it has a list of them, and the set of their indices.
LayersIn(d) == ArrayOf(d, "layers")
LayerIndexSet(d) ==
    {Get(LayersIn(d)[i], "layerIndex").v :
        i \in {j \in 1..Len(LayersIn(d)) :
                  /\ IsDict(LayersIn(d)[j]) /\ "layerIndex" \in Keys(LayersIn(d)[j])
                  /\ IsInt(Get(LayersIn(d)[j], "layerIndex"))}}
\* The layers are objects with distinct integer indices.
IndexedLayers(d) ==
    /\ Len(LayersIn(d)) >= 2
    /\ \A i \in 1..Len(LayersIn(d)) :
          /\ IsDict(LayersIn(d)[i]) /\ "layerIndex" \in Keys(LayersIn(d)[i])
          /\ IsInt(Get(LayersIn(d)[i], "layerIndex"))
    /\ Cardinality(LayerIndexSet(d)) = Len(LayersIn(d))
NeuralValidators == {"neural_12", "neural_twelve"}
\* C16: when the layer indices of a network (distinct integers, as in [0, 2])
\* are not exactly 0, 1, ..., n-1 for its n layers, the neural-network validator
\* does not accept it (returns invalid, with a message containing "sequential").
C16_NonSequentialRejected ==
    (call \in NeuralValidators /\ IndexedLayers(orig)
        /\ LayerIndexSet(orig) # 0..(Len(LayersIn(orig)) - 1))
    => ~result.ok

\* The connections of d, and the layer index of the node named id (the first
\* layer that holds it), -1 if no layer does.
ConnectionsIn(d) == ArrayOf(d, "connections")
LayerOfNode(d, id) ==
    LET S == {i \in 1..Len(LayersIn(d)) :
                 \E k \in 1..Len(ArrayOf(LayersIn(d)[i], "nodes")) :
                     /\ IsDict(ArrayOf(LayersIn(d)[i], "nodes")[k])
                     /\ "id" \in Keys(ArrayOf(LayersIn(d)[i], "nodes")[k])
                     /\ Get(ArrayOf(LayersIn(d)[i], "nodes")[k], "id") = id}
    IN IF S = {} THEN -1 ELSE Get(LayersIn(d)[CHOOSE i \in S : \A j \in S : i <= j],
                                  "layerIndex").v
\* A network in which nothing is wrong but, possibly, the direction of its
\* connections: layers 0..n-1 listed in order, the first of type input, the last
\* of type output, the others hidden, and connections between existing nodes.
SoundLayers(d) ==
    /\ IsDict(d) /\ Keys(d) = {"layers", "connections"}
    /\ IsList(Get(d, "layers")) /\ IsList(Get(d, "connections"))
    /\ IndexedLayers(d)
    /\ \A i \in 1..Len(LayersIn(d)) :
          /\ Get(LayersIn(d)[i], "layerIndex") = JInt(i - 1)
          /\ Keys(LayersIn(d)[i]) = {"layerIndex", "layerType", "nodes"}
          /\ Get(LayersIn(d)[i], "layerType") =
                 (IF i = 1 THEN JStr("input")
                  ELSE IF i = Len(LayersIn(d)) THEN JStr("output") ELSE JStr("hidden"))
          /\ Get(LayersIn(d)[i], "nodes") = JList(<<NetNode(i)>>)
    /\ \A i \in 1..Len(ConnectionsIn(d)) :
          /\ IsDict(ConnectionsIn(d)[i])
          /\ Keys(ConnectionsIn(d)[i]) = {"source", "target"}
          /\ LayerOfNode(d, Get(ConnectionsIn(d)[i], "source")) >= 0
          /\ LayerOfNode(d, Get(ConnectionsIn(d)[i], "target")) >= 0
\* Some connection does not go from a layer to a later one.
HasBackwardConnection(d) ==
    \E i \in 1..Len(ConnectionsIn(d)) :
        LayerOfNode(d, Get(ConnectionsIn(d)[i], "source"))
            >= LayerOfNode(d, Get(ConnectionsIn(d)[i], "target"))
\* C18: connections flow forward: a network with a connection whose source
\* node's layer index is not strictly smaller than its target node's is not
\* accepted (invalid, with a message containing "before target layer").
C18_BackwardConnectionRejected ==
    (call \in NeuralValidators /\ SoundLayers(orig) /\ HasBackwardConnection(orig))
    => ~result.ok

\* Some layer of type output has not the highest layer index.
OutputNotLast(d) ==
    \E i \in 1..Len(LayersIn(d)) :
        /\ GetOr(LayersIn(d)[i], "layerType", JNull) = JStr("output")
        /\ \E j \in 1..Len(LayersIn(d)) :
              Get(LayersIn(d)[j], "layerIndex").v > Get(LayersIn(d)[i], "layerIndex").v
\* C19: the output layer is the last layer: the validator of
\* pages/12_Neural_Network_Topology.py does not accept a network in which a
\* layer of type output has not the highest layer index, whatever the order of
\* the layers in the list.
C19_OutputLayerLast ==
    (call = "neural_12" /\ IndexedLayers(orig) /\ OutputNotLast(orig)) => ~result.ok

\* The user has supplied text that is no JSON to an input the page reads.
GarbageGiven ==
    \/ widget.source # "Sample" /\ widget.input = Garbage
    \/ page = "relationship" /\ widget.side_source # "Sample" /\ widget.side_input = Garbage
\* C13: on every page, text that is not valid JSON is reported as an
\* invalid-JSON-format error, not as a schema violation and not as a generic
\* processing error.
C13_InvalidJsonReported ==
    (page # "none" /\ GarbageGiven) =>
        /\ \E i \in 1..Len(shown.errors) : HasPhrase(shown.errors[i], <<"Invalid", "JSON">>)
        /\ \A i \in 1..Len(shown.errors) :
              ~HasPhrase(shown.errors[i], <<"Error", "processing">>)

\* C14: an exception raised while a page builds its chart or statistics from
\* validated data is caught in that render and shown as a generic processing
\* error; it does not leave the render.
C14_ChartExceptionCaught ==
    (page # "none" /\ Called /\ result.ok) => shown.crashed = "none"

\* A tree of the name/count schema with nothing wrong in any single node: every
\* node an object with a name and a number as count, children a list where
\* there are any.
RECURSIVE WellFormedCounts(_)
WellFormedCounts(x) ==
    /\ IsDict(x)
    /\ "name" \in Keys(x) /\ IsStr(Get(x, "name")) /\ ~Blank(Get(x, "name").v)
    /\ "count" \in Keys(x) /\ IsNumber(Get(x, "count"))
    /\ "children" \in Keys(x) =>
          /\ IsList(Get(x, "children"))
          /\ \A i \in 1..Len(Get(x, "children").v) : WellFormedCounts(Get(x, "children").v[i])
\* Twice the sum of the counts of the children from position i on.
RECURSIVE TwiceSum(_, _)
TwiceSum(children, i) ==
    IF i > Len(children) THEN 0
    ELSE Twice(Get(children[i], "count")) + TwiceSum(children, i + 1)
\* In a well-formed tree, the counts of some node's children sum to more than
\* the node's own count.
RECURSIVE SumExceeds(_)
SumExceeds(x) ==
    /\ "children" \in Keys(x)
    /\ \/ TwiceSum(Get(x, "children").v, 1) > Twice(Get(x, "count"))
       \/ \E i \in 1..Len(Get(x, "children").v) : SumExceeds(Get(x, "children").v[i])
NestedValidators == {"nested20", "nestedpage"}
\* C15: the nested feature-category validator returns invalid, with an error
\* containing "less than sum of children", for every tree in which the counts of
\* some node's children sum to more than the node's own count.
C15_SumOfChildrenRejected ==
    [][(call' \in NestedValidators /\ WellFormedCounts(data) /\ SumExceeds(data)) =>
          /\ result'.kind = "return" /\ ~result'.ok
          /\ \E k \in 1..Len(result'.msgs) :
                HasPhrase(result'.msgs[k], <<"less", "than", "sum", "of", "children">>)]_vars

\* The count of node x is negative, a string, null, or a number that is no integer.
BadCount(x) ==
    /\ IsDict(x) /\ "count" \in Keys(x)
    /\ \/ Get(x, "count").t \in {"null", "str"}
       \/ IsInt(Get(x, "count")) /\ Negative(Get(x, "count"))
       \/ Get(x, "count").t = "float" /\ Get(x, "count").half
\* C20: the nested feature-category validator returns an error containing "must
\* have a non-negative integer count" for a node whose count is negative, a
\* string (even a numeric one), null, or a non-integer number; stated for the
\* root, with a sound name and, if any, sound children.
C20_BadCountReported ==
    [][(/\ call' \in NestedValidators
        /\ BadCount(data)
        /\ "name" \in Keys(data) /\ IsStr(Get(data, "name"))
        /\ "children" \in Keys(data) =>
              /\ IsList(Get(data, "children"))
              /\ \A i \in 1..Len(Get(data, "children").v) :
                    WellFormedCounts(Get(data, "children").v[i]))
       => /\ result'.kind = "return"
          /\ \E k \in 1..Len(result'.msgs) : HasPhrase(result'.msgs[k], CountError)]_vars

\* The classes and the rows of d, where it has lists of them.
ClassesIn(d) == ArrayOf(d, "classes")
RowsIn(d) == ArrayOf(d, "matrix")
\* The rows whose length differs from the number of classes.
WrongLengthRows(d) ==
    {i \in 1..Len(RowsIn(d)) : HasLen(RowsIn(d)[i]) /\ PyLen(RowsIn(d)[i]) # Len(ClassesIn(d))}
\* d has classes and a matrix, both lists, and a row of the wrong length.
RowLengthDiffers(d) ==
    /\ IsDict(d) /\ {"classes", "matrix"} \subseteq Keys(d)
    /\ IsList(Get(d, "classes")) /\ IsList(Get(d, "matrix"))
    /\ WrongLengthRows(d) # {}
\* A row of n non-negative numbers.
SoundRow(row, n) ==
    /\ IsList(row) /\ Len(row.v) = n
    /\ \A k \in 1..n : IsNumber(row.v[k]) /\ ~Negative(row.v[k])
\* The wrong length of a row is the first thing wrong with d: at least two
\* classes, as many rows as classes, and sound rows before the first row of the
\* wrong length.
LengthIsFirstFault(d) ==
    /\ Len(ClassesIn(d)) >= 2
    /\ Len(RowsIn(d)) = Len(ClassesIn(d))
    /\ \A i \in 1..(Least(WrongLengthRows(d)) - 1) : SoundRow(RowsIn(d)[i], Len(ClassesIn(d)))
SaysSquare == HasPhrase(result.msgs[1], <<"Matrix", "must", "be", "square">>)

\* C17: for every input whose matrix has a row whose length differs from the
\* number of classes, the confusion-matrix validator returns invalid with a
\* "matrix must be square" message.
C17_SquareMessageAlways ==
    (call = "confusion_matrix" /\ RowLengthDiffers(orig)) =>
        (result.kind = "return" /\ ~result.ok /\ SaysSquare)

\* C17, as the code has it: such an input is always returned as invalid, and the
\* message is "Matrix must be square" exactly when the wrong length is the first
\* thing wrong on the validator's way: the earlier checks (two classes at
\* least, as many rows as classes) and the rows before it pass.
C17_SquareWhenFirstFault ==
    (call = "confusion_matrix" /\ RowLengthDiffers(orig)) =>
        /\ result.kind = "return" /\ ~result.ok
        /\ SaysSquare <=> LengthIsFirstFault(orig)
\* A matrix whose second row is short, after a sound first row.
C17_Witness ==
    /\ call = "confusion_matrix" /\ RowLengthDiffers(orig) /\ LengthIsFirstFault(orig)
    /\ Least(WrongLengthRows(orig)) = 2
    /\ SaysSquare

(***************************************************************************)
(* The error/dropout page.                                                 *)
(***************************************************************************)
DropoutValidators == {"dropout_17", "dropout_seventeen"}
\* A link of d leads to a node named "Discarded".
HasDropoutPath(d) ==
    LET ns == ArrayOf(d, "nodes")
        ls == ArrayOf(d, "links")
    IN
    \E i \in 1..Len(ls), j \in 1..Len(ns) :
        /\ IsDict(ls[i]) /\ "target" \in Keys(ls[i])
        /\ IsDict(ns[j]) /\ {"id", "name"} \subseteq Keys(ns[j])
        /\ Get(ns[j], "id") = Get(ls[i], "target")
        /\ Get(ns[j], "name") = JStr("Discarded")
\* C21: data must include at least one dropout path: an error/dropout validator
\* does not accept an input none of whose links leads to a node named
\* "Discarded".
C21_DropoutPathRequired ==
    (call \in DropoutValidators /\ ~HasDropoutPath(orig)) => ~result.ok

(***************************************************************************)
(* The error/dropout pages: the Sankey diagram, the filter behind "Show    *)
(* dropout paths" and the statistics.                                      *)
(***************************************************************************)
\* The ids and names of the nodes a user gives, and the values of the links.
DropoutIds == {0, 1, 5}
DropoutNames == {"a", "Discarded"}
DropoutValues == {0, 5}
\* load_sample_data(): the sample file, a pipeline whose nodes have the ids 0 to 5
\* in list order, the last of them "Discarded", with one dropout path.
SampleDropout ==
    FlowData(<<FlowNode(0, "a"), FlowNode(1, "a"), FlowNode(2, "a"), FlowNode(3, "a"),
               FlowNode(4, "a"), FlowNode(5, "Discarded")>>,
             <<FlowLink(0, 1, 5), FlowLink(0, 5, 5)>>)
\* What a user uploads or pastes there: null, or two nodes with distinct ids and
\* at most one link between ids of the universe.
DropoutDocs ==
    {JNull}
    \cup {FlowData(<<FlowNode(i, m), FlowNode(j, n)>>, ls) :
            <<i, j, m, n>> \in {q \in DropoutIds \X DropoutIds \X DropoutNames \X DropoutNames :
                                    q[1] # q[2]},
            ls \in {<<>>} \cup {<<FlowLink(s, t, v)>> :
                                    s \in DropoutIds, t \in DropoutIds, v \in DropoutValues}}
\* The widgets: the radio, the "Show dropout paths" checkbox (on at first), and
\* the uploader or text area of the chosen source.  The user has one document
\* at hand in a session (doc), and gives it, or text that is no JSON.
DropoutWidgets0(doc) ==
    [source |-> "Sample", show_dropouts |-> TRUE, input |-> NoText, doc |-> doc]
DropoutChanges(w) ==
    {w}
    \cup {[w EXCEPT !.source = src, !.input = NoText] : src \in Sources}
    \cup {[w EXCEPT !.show_dropouts = b] : b \in BOOLEAN}
    \cup (IF w.source = "Sample" THEN {}
          ELSE {[w EXCEPT !.input = t] : t \in {NoText, Garbage, JsonText(w.doc)}})

\* What a dropout page shows: messages, the figure handed to st.plotly_chart, the
\* statistics table, whether a division had a zero divisor, and the exception
\* that left main(), if any.
DropoutShown(p) ==
    [name |-> p, errors |-> <<>>, info |-> <<>>, figure |-> Absent, stats |-> <<>>,
     divzero |-> FALSE, caught |-> "none", crashed |-> "none"]

\* [x for x in xs if keep(x)].
Filter(xs, keep(_)) == SelectSeq(xs, keep)
\* go.Sankey(node=dict(label=...), link=dict(source=..., target=..., value=...)):
\* the labels are the names in list order; a link's source and target are the
\* input's values, which the chart reads as positions (from 0) in the labels.
SankeyFigure(nodes, links) ==
    [label |-> [i \in 1..Len(nodes) |-> Get(nodes[i], "name")],
     source |-> [i \in 1..Len(links) |-> Get(links[i], "source")],
     target |-> [i \in 1..Len(links) |-> Get(links[i], "target")],
     value |-> [i \in 1..Len(links) |-> Get(links[i], "value")]]
create_sankey_diagram_seventeen(d) == SankeyFigure(Get(d, "nodes").v, Get(d, "links").v)
create_sankey_diagram_17(d) == SankeyFigure(Get(d, "nodes").v, Get(d, "links").v)

\* sum(link["value"] for link in links if ...): the sum over the positions in S.
RECURSIVE SumValues(_, _)
SumValues(links, S) ==
    IF S = {} THEN 0
    ELSE LET i == CHOOSE j \in S : TRUE IN
         Get(links[i], "value").v + SumValues(links, S \ {i})
\* The positions of the links that satisfy a test.
LinksWhere(links, test(_)) == {i \in 1..Len(links) : test(links[i])}

\* calculate_statistics(data) of seventeen_Error_Dropout_Tracking.py: one row for
\* each node not named "Discarded"; the discarded node is taken to have id 5 and
\* the raw data id 0.
calculate_statistics_seventeen(d) ==
    LET nodes == Filter(Get(d, "nodes").v, LAMBDA n : Get(n, "name") # JStr("Discarded"))
        links == Get(d, "links").v
        row(n) ==
            LET id == Get(n, "id")
                into == SumValues(links, LinksWhere(links, LAMBDA l : Get(l, "target") = id))
                outgoing == SumValues(links, LinksWhere(links, LAMBDA l : Get(l, "source") = id))
                dropped == SumValues(links, LinksWhere(links,
                              LAMBDA l : Get(l, "source") = id /\ Get(l, "target") = JInt(5)))
                incoming == IF id = JInt(0) THEN outgoing + dropped ELSE into
            IN [Stage |-> Get(n, "name"), Incoming |-> incoming,
                Outgoing |-> outgoing - dropped, Dropped |-> dropped]
    IN [i \in 1..Len(nodes) |-> row(nodes[i])]

\* pages/seventeen_Error_Dropout_Tracking.py, main(): everything after the
\* widgets is in one try whose handler shows "An error occurred".
Render_dropout_seventeen ==
    /\ page = "dropout_seventeen"
    /\ \E w \in DropoutChanges(widget) :
        LET parsed == json_loads(w.input)
            sh0 == DropoutShown("dropout_seventeen")
            data1 == IF w.source = "Sample" THEN SampleDropout ELSE parsed.v
            r == validate_data_seventeen(data1)
            filtered_data ==
                FlowData(Filter(Get(data1, "nodes").v,
                                LAMBDA n : Get(n, "name") # JStr("Discarded")),
                         Filter(Get(data1, "links").v,
                                LAMBDA l : Get(l, "target") # JInt(5)))
            viz_data == IF w.show_dropouts THEN data1 ELSE filtered_data
            stats == calculate_statistics_seventeen(data1)
            sh1 == [sh0 EXCEPT !.figure = create_sankey_diagram_seventeen(viz_data)]
            sh2 == [sh1 EXCEPT !.stats = stats]
            failed(sh, e) == [StError(sh, <<"An", "error", "occurred:", ExceptionText>>)
                                EXCEPT !.caught = e]
        IN
        /\ widget' = w
        /\ page' = page
        /\ session' = session
        /\ IF w.source # "Sample" /\ w.input = NoText
           THEN /\ NoValidator
                /\ shown' = StInfo(sh0, IF w.source = "Upload"
                                        THEN <<"Please", "upload", "a", "JSON", "file">>
                                        ELSE <<"Please", "paste", "JSON", "data">>)
           ELSE IF w.source # "Sample" /\ parsed.exc # "none"
           THEN /\ NoValidator
                /\ shown' = failed(sh0, parsed.exc)
           ELSE /\ RanValidator("dropout_seventeen", data1, r)
                /\ IF r.kind = "raise" THEN shown' = failed(sh0, r.exc)
                   ELSE IF ~r.ok
                   THEN shown' = StError(sh0, <<"Invalid", "data", "format.", "Please",
                                                "check", "the", "documentation", "for",
                                                "the", "required", "format.">>)
                   ELSE IF stats = <<>> THEN shown' = failed(sh2, "IndexError")
                   ELSE IF stats[1].Incoming = 0
                   \* total_loss / total_input with total_input = 0: the quotient of
                   \* two table cells raises ZeroDivisionError or is nan or inf,
                   \* after which the metrics are written.
                   THEN \/ shown' = [failed(sh2, "ZeroDivisionError") EXCEPT !.divzero = TRUE]
                        \/ shown' = [sh2 EXCEPT !.divzero = TRUE]
                   ELSE shown' = sh2

\* The id of the first node named "Discarded":
\* [node["id"] for node in nodes if node["name"] == "Discarded"][0].
FirstDiscarded(nodes) ==
    Get(nodes[Least({i \in 1..Len(nodes) : Get(nodes[i], "name") = JStr("Discarded")})], "id")
\* calculate_statistics(data) of 17_Error_Dropout_Tracking.py: one row for each
\* node not named "Discarded"; the drop rate is computed only when something
\* leaves the node.
calculate_statistics_17(d) ==
    LET nodes == Filter(Get(d, "nodes").v, LAMBDA n : Get(n, "name") # JStr("Discarded"))
        links == Get(d, "links").v
        discarded_id == FirstDiscarded(Get(d, "nodes").v)
        row(n) ==
            LET id == Get(n, "id") IN
            [Stage |-> Get(n, "name"),
             Incoming |-> SumValues(links, LinksWhere(links, LAMBDA l : Get(l, "target") = id)),
             Outgoing |-> SumValues(links, LinksWhere(links,
                             LAMBDA l : Get(l, "source") = id /\ Get(l, "target") # discarded_id)),
             Dropped |-> SumValues(links, LinksWhere(links,
                             LAMBDA l : Get(l, "source") = id /\ Get(l, "target") = discarded_id))]
    IN [i \in 1..Len(nodes) |-> row(nodes[i])]

\* pages/17_Error_Dropout_Tracking.py, main(): nothing after the loading of the
\* data is in a try.
Render_dropout_17 ==
    /\ page = "dropout_17"
    /\ \E w \in DropoutChanges(widget) :
        LET parsed == json_loads(w.input)
            sh0 == DropoutShown("dropout_17")
            data1 == IF w.source = "Sample" THEN SampleDropout ELSE parsed.v
            r == validate_data_17(data1)
            filtered_data ==
                FlowData(Get(data1, "nodes").v,
                         Filter(Get(data1, "links").v,
                                LAMBDA l : Get(l, "target") # FirstDiscarded(Get(data1, "nodes").v)))
            viz_data == IF w.show_dropouts THEN data1 ELSE filtered_data
            stats == calculate_statistics_17(data1)
            sh1 == [sh0 EXCEPT !.figure = create_sankey_diagram_17(viz_data)]
        IN
        /\ widget' = w
        /\ page' = page
        /\ session' = session
        /\ IF w.source # "Sample" /\ w.input = NoText
           THEN /\ NoValidator
                /\ shown' = StError(sh0, IF w.source = "Upload"
                                         THEN <<"Please", "upload", "a", "JSON", "file">>
                                         ELSE <<"Please", "enter", "JSON", "data">>)
           ELSE IF w.source # "Sample" /\ parsed.exc # "none"
           THEN /\ NoValidator
                /\ shown' = StError(sh0, IF w.source = "Upload"
                                         THEN <<"Invalid", "JSON", "file">>
                                         ELSE <<"Invalid", "JSON">>)
           ELSE IF ~Truthy(data1)
           THEN /\ NoValidator
                /\ shown' = sh0
           ELSE /\ call' = "dropout_17"
                /\ result' = r.out
                /\ ui' = r.ui
                /\ data' = data1
                /\ orig' = data1
                /\ IF ~r.out.ok
                   THEN shown' = [sh0 EXCEPT !.errors = r.ui]
                   ELSE IF stats = <<>>
                   THEN shown' = [sh1 EXCEPT !.stats = stats, !.crashed = "KeyError"]
                   ELSE shown' = [sh1 EXCEPT !.stats = stats]

(***************************************************************************)
(* The feature-extraction page: its validator, its Sankey diagram and its  *)
(* statistics.                                                             *)
(***************************************************************************)
\* The node loop of validate_feature_extraction_data from position i on: the ids
\* need not be integers.
RECURSIVE FeatureNodes(_, _, _)
FeatureNodes(nodes, i, node_ids) ==
    IF i > Len(nodes) THEN [st |-> "pass", ids |-> node_ids]
    ELSE LET node == nodes[i] IN
        IF PyIn("id", node) = "TypeError" THEN Throw("TypeError")
        ELSE IF PyIn("id", node) = "F" \/ PyIn("name", node) = "F"
        THEN Fail(<<"Each", "node", "must", "have", "'id'", "and", "'name'", "fields">>)
        ELSE IF ~IsDict(node) \/ Unhashable(Get(node, "id")) THEN Throw("TypeError")
        ELSE IF Get(node, "id") \in node_ids
        THEN Fail(<<"Node", "IDs", "must", "be", "unique">>)
        ELSE FeatureNodes(nodes, i + 1, node_ids \cup {Get(node, "id")})

\* pages/fourteen_Feature_Extraction.py: each check returns (False, message), and
\* any exception is caught and returned as (False, str(e)).
validate_feature_extraction_data(d) ==
    IF ~IsDict(d) THEN Pair(FALSE, <<"Data", "must", "be", "a", "dictionary">>)
    ELSE IF PyIn("nodes", d) = "F" \/ PyIn("links", d) = "F"
    THEN Pair(FALSE, <<"Data", "must", "contain", "'nodes'", "and", "'links'", "keys">>)
    ELSE IF ~Iterable(Get(d, "nodes")) THEN Pair(FALSE, <<ExceptionText>>)
    ELSE LET ns == FeatureNodes(Get(d, "nodes").v, 1, {}) IN
        IF ns.st = "fail" THEN Pair(FALSE, ns.msg)
        ELSE IF ns.st = "throw" THEN Pair(FALSE, <<ExceptionText>>)
        ELSE IF ~Iterable(Get(d, "links")) THEN Pair(FALSE, <<ExceptionText>>)
        ELSE LET ls == PipelineLinks(Get(d, "links").v, 1, ns.ids) IN
            IF ls.st = "fail" THEN Pair(FALSE, ls.msg)
            ELSE IF ls.st = "throw" THEN Pair(FALSE, <<ExceptionText>>)
            ELSE IF Cardinality(ns.ids) < 2
            THEN Pair(FALSE, <<"Data", "must", "contain", "at", "least", "two", "nodes",
                               "(raw", "data", "and", "one", "feature)">>)
            ELSE Pair(TRUE, <<>>)

\* create_sankey_diagram(data, highlight_node): labels and links as given.
create_sankey_diagram_fourteen(d) == SankeyFigure(Get(d, "nodes").v, Get(d, "links").v)

\* The widgets of the page: the radio and the uploader or text area in the
\* sidebar; the select box of the node to highlight is drawn once data is valid.
FeatureChanges(w) ==
    {w}
    \cup {[w EXCEPT !.source = src, !.input = NoText] : src \in Sources}
    \cup (IF w.source = "Sample" THEN {}
          ELSE {[w EXCEPT !.input = t] : t \in {NoText, Garbage, JsonText(w.doc)}})

\* pages/fourteen_Feature_Extraction.py, main(): nothing after the loading of
\* the data is in a try.
Render_features_fourteen ==
    /\ page = "features_fourteen"
    /\ \E w \in FeatureChanges(widget) :
        LET parsed == json_loads(w.input)
            sh0 == DropoutShown("features_fourteen")
            sh1 == IF w.source = "Sample" \/ w.input = NoText \/ parsed.exc = "none" THEN sh0
                   ELSE StError(sh0, IF w.source = "Upload"
                                     THEN <<"Invalid", "JSON", "file.", "Please", "check",
                                            "the", "format.">>
                                     ELSE <<"Invalid", "JSON", "data.", "Please", "check",
                                            "the", "format.">>)
            data1 == IF w.source = "Sample" THEN SampleDropout ELSE parsed.v
            r == validate_feature_extraction_data(data1)
            nodes == Get(data1, "nodes").v
            links == Get(data1, "links").v
            \* node_names.index(selected_node): the first node of that name.
            index(k) == Least({j \in 1..Len(nodes) : Get(nodes[j], "name") = Get(nodes[k], "name")})
            sh2 == [sh1 EXCEPT !.figure = create_sankey_diagram_fourteen(data1)]
            total_input == SumValues(links, LinksWhere(links, LAMBDA l : Get(l, "source") = JInt(0)))
            total_features == Len(Filter(nodes, LAMBDA n : Get(n, "id") # JInt(0)))
        IN
        /\ widget' = w
        /\ page' = page
        /\ IF ~Truthy(data1)
           THEN /\ NoValidator
                /\ shown' = sh1
                /\ session' = session
           ELSE /\ RanValidator("features_fourteen", data1, r)
                /\ IF ~r.ok
                   THEN /\ shown' = StError(sh1, <<"Invalid", "data", "format:">> \o r.msgs[1])
                        /\ session' = session
                   ELSE \E selected \in 0..Len(nodes) :
                        /\ session' = [session EXCEPT !.clicked_node =
                                          IF selected = 0 THEN JNull
                                          ELSE Get(nodes[index(selected)], "id")]
                        /\ IF Len(links) = 0
                           \* sum(...) / len(data["links"]) with no links
                           THEN shown' = [sh2 EXCEPT !.divzero = TRUE,
                                                     !.crashed = "ZeroDivisionError"]
                           ELSE shown' = [sh2 EXCEPT !.stats =
                                            <<[total_input |-> total_input,
                                               total_features |-> total_features,
                                               sum |-> SumValues(links, 1..Len(links)),
                                               len |-> Len(links)]>>]

SankeyPages == {"dropout_17", "dropout_seventeen", "features_fourteen"}
InitSankey ==
    /\ page \in SankeyPages
    /\ session = NewSession(page)
    /\ \E doc \in DropoutDocs : widget = DropoutWidgets0(doc)
    /\ shown = DropoutShown(page)
    /\ data = JNull
    /\ orig = JNull
    /\ call = "none"
    /\ result = NoResult
    /\ ui = <<>>
NextSankey ==
    \/ Render_dropout_17
    \/ Render_dropout_seventeen
    \/ Render_features_fourteen
SpecSankey == InitSankey /\ [][NextSankey]_vars

\* The ids of the nodes of d that are named "Discarded".
DiscardedIds(d) ==
    {Get(ArrayOf(d, "nodes")[i], "id") :
        i \in {j \in 1..Len(ArrayOf(d, "nodes")) :
                  Get(ArrayOf(d, "nodes")[j], "name") = JStr("Discarded")}}
\* Link k of the figure leads to the node labelled "Discarded": its target is the
\* id the input gives that node, or the position of that label in the figure.
LeadsToDiscarded(fig, k, d) ==
    \/ fig.target[k] \in DiscardedIds(d)
    \/ /\ fig.target[k].v + 1 \in 1..Len(fig.label)
       /\ fig.label[fig.target[k].v + 1] = JStr("Discarded")
\* A render that drew the diagram of validated data.
DrewDiagram == page \in SankeyPages /\ Called /\ result.ok /\ shown.figure # Absent
\* C22: on the error/dropout page, for every validated input, when "Show dropout
\* paths" is off the diagram contains no link whose target is the node labelled
\* "Discarded", whatever id that node has.
C22_DropoutPathsHidden ==
    (DrewDiagram /\ ~widget.show_dropouts) =>
        \A k \in 1..Len(shown.figure.target) : ~LeadsToDiscarded(shown.figure, k, orig)

\* The name the input d gives the node with identifier id.
NameOfId(d, id) ==
    LET ns == ArrayOf(d, "nodes") IN
    Get(ns[Least({i \in 1..Len(ns) : Get(ns[i], "id") = id})], "name")
\* x, the source or target of a link of the figure, is a position of the
\* figure's labels (counted from 0), and the label there is the name of the
\* input node with the id x.
DenotesItsNode(fig, x, d) ==
    /\ x.v + 1 \in 1..Len(fig.label)
    /\ fig.label[x.v + 1] = NameOfId(d, x)
\* C26: for every input a Sankey page's validator accepts, every link source and
\* target passed to the diagram is a valid position in the diagram's list of
\* node labels and denotes the node the input link referred to by id, also when
\* the ids are not 0..n-1 in list order and when a filter hides nodes.
C26_LinksDenoteTheirNodes ==
    DrewDiagram =>
        \A k \in 1..Len(shown.figure.source) :
            /\ DenotesItsNode(shown.figure, shown.figure.source[k], orig)
            /\ DenotesItsNode(shown.figure, shown.figure.target[k], orig)

(***************************************************************************)
(* The dataset-composition page.                                           *)
(***************************************************************************)
ClassItem(c, n) == JDict([class |-> JStr(c), count |-> n])
\* pages/page23_Dataset_Composition.py, validate_data, from item i on.
RECURSIVE CompositionItems(_, _)
CompositionItems(items, i) ==
    IF i > Len(items) THEN Pass
    ELSE LET item == items[i] IN
        IF ~IsDict(item) THEN Fail(<<"Each", "item", "must", "be", "a", "dictionary">>)
        ELSE IF "class" \notin Keys(item) \/ ~IsStr(Get(item, "class"))
                \/ Blank(Get(item, "class").v)
        THEN Fail(<<"Each", "item", "must", "have", "a", "non-empty", "class", "name">>)
        ELSE IF "count" \notin Keys(item) \/ ~IsNumber(Get(item, "count"))
                \/ Negative(Get(item, "count"))
        THEN Fail(<<"Each", "item", "must", "have", "a", "non-negative", "count">>)
        ELSE CompositionItems(items, i + 1)
validate_data_page23(d) ==
    IF ~IsList(d) THEN Pair(FALSE, <<"Data", "must", "be", "a", "list", "of", "class", "objects">>)
    ELSE IF Len(d.v) = 0 THEN Pair(FALSE, <<"At", "least", "one", "class", "is", "required">>)
    ELSE LET c == CompositionItems(d.v, 1) IN
        IF c.st = "fail" THEN Pair(FALSE, c.msg) ELSE Pair(TRUE, <<"Valid", "data">>)

\* load_sample_data(): the sample file, a valid list of classes.
SampleComposition == JList(<<ClassItem("a", JInt(5)), ClassItem("b", JInt(2))>>)
\* What a user has at hand to upload or paste: a list of up to two items, well
\* formed or not.
CompositionDocs ==
    {JNull}
    \cup {JList(q) : q \in SeqUpTo({JNull} \cup {ClassItem(c, n) :
                                       c \in {"", "a", "c"},
                                       n \in {JInt(-1), JInt(0), JInt(7), JStr("7")}}, 2)}

InputMethods == {"Use sample data", "Upload JSON file", "Paste JSON data"}
ChartTypes == {"Bar Chart", "Pie Chart"}
SortOrders == {"Original", "Ascending", "Descending"}
\* session_state_keys of main(): the values every run starts from.
SessionDefaults ==
    [text_input |-> NoText, highlight |-> JNull, tooltip |-> JNull, error |-> JNull,
     data |-> SampleComposition, chart_type |-> "Bar Chart", sort_order |-> "Original",
     input_method |-> "Use sample data"]
\* The session state before the first run: none of the page's keys is set.  The
\* model gives the unset keys the value they are first assigned.
NewComposition == [k \in {"name", "sorted_data"} \cup DOMAIN SessionDefaults |->
                      IF k = "name" THEN "composition_page23"
                      ELSE IF k = "sorted_data" THEN <<>>
                      ELSE SessionDefaults[k]]
\* for key, default_value in session_state_keys.items():
\*     st.session_state[key] = default_value
ResetSession(sess) ==
    [k \in DOMAIN sess |-> IF k \in DOMAIN SessionDefaults THEN SessionDefaults[k] ELSE sess[k]]

\* df.sort_values('count'): the items in ascending order of count, those of equal
\* count in their order (insertion of item i among the sorted first i - 1).
RECURSIVE SortByCount(_, _)
SortByCount(items, n) ==
    IF n = 0 THEN <<>>
    ELSE LET s == SortByCount(items, n - 1)
             x == items[n]
             k == Cardinality({j \in 1..Len(s) : Get(s[j], "count").v <= Get(x, "count").v})
         IN SubSeq(s, 1, k) \o <<x>> \o SubSeq(s, k + 1, Len(s))
Reverse(s) == [i \in 1..Len(s) |-> s[Len(s) + 1 - i]]
\* The rows of the data frame of create_bar_chart(data, sort_order).
SortedRows(items, sort_order) ==
    CASE sort_order = "Ascending" -> SortByCount(items, Len(items))
      [] sort_order = "Descending" -> Reverse(SortByCount(Reverse(items), Len(items)))
      [] OTHER -> items
\* The tooltip: a class and its count.
Tooltip(item) == [class |-> Get(item, "class"), count |-> Get(item, "count")]

\* What the page shows after a run: the widgets drawn with their values, the
\* chart, and whether the run ended in st.rerun().
CompositionShown ==
    [name |-> "composition_page23", errors |-> <<>>, input_method |-> "Use sample data",
     uploader |-> FALSE, text_area |-> FALSE, charted |-> Absent, chart_type |-> "none",
     sort_order |-> "none", bars |-> <<>>, buttons |-> <<>>, highlighted |-> JNull,
     rerun |-> FALSE,
     divzero |-> FALSE, crashed |-> "none"]

\* What the user can do on the page as shown: nothing (a reload), choose an input
\* method, give a file or a text where the uploader or the text area is drawn,
\* choose a chart type or a sort order where those are drawn, or press the
\* highlight button of a class of the bar chart.
UserAction(k, choice, input, class) ==
    [key |-> k, choice |-> choice, input |-> input, class |-> class]
UserActions(sh, doc) ==
    {UserAction("none", "none", NoText, JNull)}
    \cup {UserAction("input_method", m, NoText, JNull) : m \in InputMethods}
    \cup (IF sh.uploader \/ sh.text_area
          THEN {UserAction(IF sh.uploader THEN "uploader" ELSE "text_input", "none", t, JNull) :
                   t \in {NoText, Garbage, JsonText(doc)}}
          ELSE {})
    \cup (IF sh.charted # Absent
          THEN {UserAction("chart_type", c, NoText, JNull) : c \in ChartTypes}
          ELSE {})
    \cup (IF sh.chart_type = "Bar Chart"
          THEN {UserAction("sort_order", o, NoText, JNull) : o \in SortOrders}
               \cup {UserAction("button", "none", NoText, sh.buttons[i]) :
                        i \in 1..Len(sh.buttons)}
          ELSE {})

\* The classes of a list of items, in its order.
Classes(items) == [i \in 1..Len(items) |-> Get(items[i], "class")]
\* sum(item['count'] for item in data).
RECURSIVE SumCounts(_, _)
SumCounts(items, n) ==
    IF n = 0 THEN 0 ELSE SumCounts(items, n - 1) + Get(items[n], "count").v

\* One run of main() of pages/page23_Dataset_Composition.py from the session
\* state sess, with the file in the uploader and the highlight button pressed
\* (JNull: none): the session state and the page it leaves, and the data it
\* validated (Absent: the validator was not called).
main_page23(sess, upload, pressed) ==
    LET s0 == ResetSession(sess)
        input_method == s0.input_method
        given == IF input_method = "Upload JSON file" THEN upload
                 ELSE IF input_method = "Paste JSON data" THEN s0.text_input
                 ELSE NoText
        parsed == json_loads(given)
        sh0 == [CompositionShown EXCEPT !.input_method = input_method,
                                        !.uploader = (input_method = "Upload JSON file"),
                                        !.text_area = (input_method = "Paste JSON data")]
        data1 == IF input_method = "Use sample data" THEN SampleComposition
                 ELSE IF given = NoText THEN JNull
                 ELSE parsed.v
        r == validate_data_page23(data1)
        rows == SortedRows(data1.v, s0.sort_order)
        s1 == [s0 EXCEPT !.sorted_data = rows, !.tooltip = Tooltip(rows[1]), !.data = data1]
        sh1 == [sh0 EXCEPT !.charted = data1, !.chart_type = s0.chart_type,
                           !.sort_order = s0.sort_order, !.bars = Classes(rows),
                           !.buttons = Classes(data1.v), !.highlighted = s0.highlight]
        hit == {i \in 1..Len(data1.v) : Get(data1.v[i], "class") = pressed}
        item == data1.v[Least(hit)]
    IN
    IF input_method = "Paste JSON data" /\ given # NoText
    \* st.session_state["dataset_composition_text_input"] = json_str, after the
    \* text area with that key was drawn
    THEN [sess |-> s0, sh |-> [sh0 EXCEPT !.crashed = "StreamlitAPIException"],
          validated |-> Absent]
    ELSE IF input_method = "Upload JSON file" /\ given # NoText /\ parsed.exc # "none"
    THEN [sess |-> s0, sh |-> StError(sh0, <<"Error:", "Invalid", "JSON", "file">>),
          validated |-> Absent]
    ELSE IF ~Truthy(data1) THEN [sess |-> s0, sh |-> sh0, validated |-> Absent]
    ELSE IF ~r.ok
    THEN [sess |-> [s0 EXCEPT !.error = r.msgs[1]],
          sh |-> StError(sh0, <<"Invalid", "data:">> \o r.msgs[1]), validated |-> data1]
    ELSE IF s0.chart_type = "Pie Chart"
    THEN [sess |-> s0,
          sh |-> [sh0 EXCEPT !.charted = data1, !.chart_type = "Pie Chart",
                             !.divzero = (SumCounts(data1.v, Len(data1.v)) = 0)],
          validated |-> data1]
    ELSE IF hit # {}
    \* the button of item returned True: the highlight is stored and st.rerun()
    \* ends the run
    THEN [sess |-> [s1 EXCEPT !.highlight = Get(item, "class"), !.tooltip = Tooltip(item)],
          sh |-> [sh1 EXCEPT !.rerun = TRUE], validated |-> data1]
    ELSE [sess |-> s1,
          sh |-> [sh1 EXCEPT !.divzero = (SumCounts(data1.v, Len(data1.v)) = 0)],
          validated |-> data1]

\* The end of a run of the page.
RanPage23(out) ==
    /\ session' = out.sess
    /\ shown' = out.sh
    /\ page' = page
    /\ IF out.validated = Absent THEN NoValidator
       ELSE RanValidator("composition_page23", out.validated,
                         validate_data_page23(out.validated))

\* The user does something on the page: the browser sends the widget's new value,
\* which is in the session state under the widget's key when the script starts.
Render_composition_page23 ==
    /\ page = "composition_page23"
    /\ ~shown.rerun
    /\ \E a \in UserActions(shown, widget.doc) :
        LET sess == IF a.key \in {"input_method", "chart_type", "sort_order"}
                    THEN [session EXCEPT ![a.key] = a.choice]
                    ELSE IF a.key = "text_input" THEN [session EXCEPT !.text_input = a.input]
                    ELSE session
            upload == IF a.key = "uploader" THEN a.input
                      ELSE IF shown.uploader THEN widget.upload
                      ELSE NoText
        IN
        /\ widget' = [widget EXCEPT !.action = a, !.upload = upload]
        /\ RanPage23(main_page23(sess, upload, a.class))

\* The run that st.rerun() starts: the same widgets, no button pressed.
Rerun_composition_page23 ==
    /\ page = "composition_page23"
    /\ shown.rerun
    /\ widget' = widget
    /\ RanPage23(main_page23(session, widget.upload, JNull))

InitComposition ==
    /\ page = "composition_page23"
    /\ session = NewComposition
    /\ \E doc \in CompositionDocs :
          widget = [action |-> UserAction("none", "none", NoText, JNull), upload |-> NoText,
                    doc |-> doc]
    /\ shown = CompositionShown
    /\ data = JNull
    /\ orig = JNull
    /\ call = "none"
    /\ result = NoResult
    /\ ui = <<>>
NextComposition ==
    \/ Render_composition_page23
    \/ Rerun_composition_page23
SpecComposition == InitComposition /\ [][NextComposition]_vars

\* C30: for every input a page's validator accepts, computing the page's
\* statistics and colour scales performs no division by zero, also for an input
\* with no links or a zero total input.
C30_NoDivisionByZero ==
    (page \in SankeyPages /\ Called /\ result.ok) => ~shown.divzero

\* A run of the dataset-composition page has completed: it did not end in
\* st.rerun().
RenderCompleted == page = "composition_page23" /\ ~shown.rerun
\* C23: on the dataset-composition page, after the highlight button of a class is
\* clicked and the resulting render has completed, the session's highlight
\* equals that class and the session's tooltip holds that class and its count.
C23_HighlightKept ==
    (RenderCompleted /\ widget.action.key = "button") =>
        /\ session.highlight = widget.action.class
        /\ \E i \in 1..Len(session.data.v) :
              /\ Get(session.data.v[i], "class") = widget.action.class
              /\ session.tooltip = Tooltip(session.data.v[i])

\* C27: on the dataset-composition page, the input method, chart type and sort
\* order the user selects are the ones in effect in the render that follows the
\* selection (so that choosing "Paste JSON data" leads to the text area in which
\* the data can be pasted).
C27_SelectionInEffect ==
    RenderCompleted =>
        /\ widget.action.key = "input_method" => shown.input_method = widget.action.choice
        /\ (widget.action.key = "chart_type" /\ shown.charted # Absent) =>
              shown.chart_type = widget.action.choice
        /\ (widget.action.key = "sort_order" /\ shown.chart_type = "Bar Chart") =>
              shown.sort_order = widget.action.choice

(***************************************************************************)
(* The selected node of the network page.                                  *)
(***************************************************************************)
\* The run of the network page has drawn the chart of valid data.
DrewNetwork == page = "neural_12" /\ Called /\ shown.charted # Absent
\* C24: on the neural-network page, before any node has been clicked, and
\* again after "Clear Selection" is pressed, the session state holds no
\* 'clicked_node' entry.
C24_NoSelectionEntry ==
    (page = "neural_12" /\ (~widget.touched \/ widget.event.clear)) =>
        session.clicked_node = Absent

\* C25: on the neural-network page, whenever a selected node is held in the
\* session while a graph is rendered, it is a node of the graph built from the
\* data of that render, and the render neither fails nor shows a panel for a
\* node the graph has not.
C25_SelectionInGraph ==
    (DrewNetwork /\ Truthy(session.clicked_node)) =>
        /\ session.clicked_node \in GraphNodes(data)
        /\ shown.errors = <<>>
        /\ shown.panel \in GraphNodes(data)


(***************************************************************************)
(* The three copies of the pipeline validator, compared.                   *)
(***************************************************************************)
\* What a call comes to: accepted, rejected with a reason (returned, or
\* carried by a raised ValueError), or ended by an exception of another type.
Verdict(r) ==
    IF r.kind = "raise" /\ r.exc = "ValueError"
    THEN [ok |-> FALSE, reason |-> r.msgs, exc |-> "none"]
    ELSE [ok |-> r.ok, reason |-> IF r.ok THEN <<>> ELSE r.msgs, exc |-> r.exc]
C28_SameVerdictTwice ==
    [][(call # "none" /\ call' = call) => (result' = result /\ ui' = ui)]_vars

====
